---- MODULE Spec2Model ----
(***************************************************************************)
(* Verification model of the fault-tolerant scheduling and streaming core  *)
(* of data_factory:                                                         *)
(*   - JobQueue            (app/core/queue.py)                              *)
(*   - CircuitBreaker, RetryPolicy, StreamBuffer (app/core/streaming.py)    *)
(*   - BatchProcessor job lifecycle (app/services/batch_processor.py)       *)
(* Each component has its own specification (SpecQueue, SpecBreaker, ...)   *)
(* over the shared variable tuple; a component's actions leave the other    *)
(* components' variables unchanged.                                         *)
(***************************************************************************)
EXTENDS Integers, Sequences, FiniteSets, TLC

(***************************************************************************)
(* Bounds of the model                                                     *)
(***************************************************************************)
max_concurrent == 2        \* JobQueue(max_concurrent=...)
MaxStarts == 2             \* calls of JobQueue.start()
MaxAdds == 3               \* calls of JobQueue.add_task()
failure_threshold == 2     \* CircuitBreakerConfig.failure_threshold
recovery_timeout == 2      \* CircuitBreakerConfig.recovery_timeout, in clock ticks
success_threshold == 2     \* CircuitBreakerConfig.success_threshold
MaxCalls == 7              \* calls of CircuitBreaker.call()
MaxInflight == 2           \* calls of CircuitBreaker.call() that overlap
MaxTime == 5               \* last tick of the clock
MaxRetries == 3            \* largest RetryPolicy(max_retries=...)
MaxBufSize == 3            \* largest StreamBuffer(max_size=...)
MaxBufAdds == 6            \* calls of StreamBuffer.add()
MaxBatch == 2              \* largest batch_size given to StreamBuffer.get_batch()
MaxWorkItems == 2          \* WorkItems generated for one run of the Job
MaxFailedItems == 2        \* largest failed_items a run counts up to
MaxJobErrors == 1          \* largest error_count a run loads and still fails
MaxDays == 8               \* longest date range of a job, in days
MaxEvents == 3             \* detected events submitted for storage
MaxEventBatch == 2         \* longest list given to EventProcessor._store_events
MaxFetches == 4            \* invocations of the fetch collaborator by the polling loops
MaxSchedTime == 2          \* last instant of the scheduler's clock (instants start at 1)
MaxWait == 2               \* longest time a wait_for_task call is followed, and largest timeout + 1
max_retries == 2           \* BatchJob.max_retries of the rows that retry_failed_jobs reads
MaxTotalItems == 3         \* largest BatchJob.total_items
MaxUpdate == 2             \* largest argument of BatchJob.update_progress
MaxProgress == 4           \* largest processed_items + failed_items that is followed
MaxInstruments == 2        \* longest instruments list of create_batch_job
MaxTimeframes == 2         \* longest timeframes list of create_batch_job
MaxRaised == 1             \* create_batch_job calls that raise
MaxParallelRuns == 2       \* runs of the Job in parallel mode

TaskIds == {1, 2, 3}       \* task_id values given to add_task / cancel_task
Prios == {1, 5}            \* QueuePriority.CRITICAL, QueuePriority.NORMAL
NoTask == [task_id |-> 0, priority |-> 0]
EmptyMap == [k \in {} |-> 0]
\* asyncio.current_task() of a worker that executes a task: the handle that
\* _get_next_task stores in running_tasks. Idle workers are interchangeable
\* and are counted; a worker takes the lowest free handle when it is given a
\* task and gives it back when the task completes or fails. A worker stopped
\* by a cancellation keeps its handle: running_tasks may still refer to it.
Runs == 1..MaxAdds

VARIABLES
    \* ---- JobQueue
    queue,            \* self.queue: the heap array of QueuedTask
    running_tasks,    \* self.running_tasks: task_id -> handle of the worker
    completed_tasks,  \* self.completed_tasks: task_id -> result
    failed_tasks,     \* self.failed_tasks: task_id -> exception
    starts,           \* number of start() calls: len(self._workers) = starts * max_concurrent
    idle_workers,     \* workers of self._workers at the top of their loop
    runs,             \* per handle: the task and "free" | "exec" | "cancelling" | "stopped"
    adds,             \* number of add_task() calls so far
    n_failures,       \* history: number of task executions that raised
    shutdown,         \* self._shutdown
    stop_pc,          \* the caller of stop(): "idle" | "waiting" | "returned"
    stop_inflight,    \* history: the keys of running_tasks when stop() was called
    cancel_returned,  \* history: the cancel_task call of the last step and what it returned
    cancelled_queued, \* history: task ids that cancel_task removed from the queue
    w_pc,             \* a wait_for_task call: "idle" | "check" | "sleep" | "returned" | "raised" | "timeout"
    w_task_id,        \* its task_id
    w_timeout,        \* its timeout (NoTimeout: None)
    w_elapsed,        \* utcnow() - start_time
    w_outcome,        \* what it returned or raised
    \* ---- CircuitBreaker
    cb_state,           \* self.state: "closed" | "open" | "half_open"
    failure_count,      \* self.failure_count
    success_count,      \* self.success_count
    last_failure_time,  \* self.last_failure_time, NoTime for None
    now,                \* datetime.utcnow()
    inflight,           \* calls whose func is being awaited
    cb_calls,           \* number of call() invocations so far
    streak,             \* history: failed calls since the last successful one
    cb_last,            \* history: what the last breaker step was
    \* ---- RetryPolicy
    rp_pc,              \* "new" | "ready" | "calling" | "sleeping" | "returned" | "raised" | "cancelled"
    rp_max_retries,     \* self.max_retries
    rp_attempt,         \* the loop variable attempt of execute
    rp_last_exception,  \* last_exception of execute
    rp_outcome,         \* what execute returned or raised
    rp_invocations,     \* history: what each invocation of func returned or raised
    rp_max_delay,       \* self.max_delay
    rp_delays,          \* history: the delays execute slept, in order
    \* ---- StreamBuffer
    sb_pc,              \* "new" | "ready"
    sb_max_size,        \* self.max_size
    sb_buffer,          \* self._buffer
    sb_items_added,     \* self._items_added
    sb_items_dropped,   \* self._items_dropped
    sb_taken,           \* history: items removed by get_batch, get_all and clear
    \* ---- BatchProcessor, one Job
    job_status,         \* per job: BatchJob.status as stored
    job_failed_items,   \* per job: BatchJob.failed_items as stored
    job_error_count,    \* per job: BatchJob.error_count as stored
    job_error_message,  \* per job: BatchJob.error_message as stored
    jr_pc,              \* per start_job invocation: "idle" | "starting" | "processing"
    jr_job,             \* per start_job invocation: job_id
    jr_resume,          \* per start_job invocation: resume_from_checkpoint
    jr_left,            \* per start_job invocation: WorkItems not yet processed
    jr_failed,          \* per start_job invocation: job.failed_items of its BatchJob object
    jr_errors,          \* per start_job invocation: len(results['errors'])
    jr_error_count,     \* per start_job invocation: job.error_count of its BatchJob object
    j_returned,         \* history: what the last step handed to its caller
    \* ---- BatchProcessor, the work items and the checkpoint of one job run sequentially
    wi_pc,              \* "new" | "created" | "running" | "stopped"
    wi_end_date,        \* job.end_date, in days after job.start_date
    wi_checkpoint,      \* job.checkpoint_data
    wi_items,           \* work_items of the run
    wi_next,            \* position in work_items of the item processed next
    wi_resumed,         \* resume_from_checkpoint of the run
    wi_original,        \* history: work_items of the first run
    wi_done,            \* history: the items of the first run that were processed
    \* ---- the resistance_events table, EventProcessor._store_events, SpikeProcessor._store_event
    ev_rows,            \* per (instrument, timeframe, event_timestamp): committed records
    ev_pc,              \* per _store_events invocation: "idle" | "storing"
    ev_todo,            \* per _store_events invocation: events not yet looked at
    ev_pending,         \* per _store_events invocation: events added to its session, not committed
    ev_submitted,       \* history: events submitted so far
    \* ---- SpikeProcessor; its circuit_breaker is the CircuitBreaker above
    sp_running,         \* self._running
    sp_stream,          \* per (instrument, timeframe): where its _process_stream task is
    sp_drain,           \* where the _process_buffer task is
    sp_metrics,         \* where the _report_metrics task is
    sp_fetches,         \* history: invocations of _fetch_latest_candle
    sp_fail_streak,     \* history: fetches that raised since the last one that did not
    sp_tasks,           \* len(self._tasks)
    sp_active_streams,  \* self.active_streams
    sp_stop_pc,         \* the caller of stop(): "idle" | "waiting" (at the gather)
    \* ---- BatchTaskScheduler and the batch_jobs rows it reads
    ts_running,         \* self._running
    ts_now,             \* datetime.utcnow()
    ts_status,          \* per job: status of the row ("absent": not created)
    ts_scheduled_at,    \* per job: scheduled_at of the row (NoSchedule: NULL)
    ts_recurring,       \* per job: is_recurring
    ts_pattern,         \* per job: recurrence_pattern (NoPattern: NULL)
    ts_priority,        \* per job: priority
    ts_task,            \* per job: its entry in self.scheduled_tasks and where the task is
    ts_recurrence,      \* per job: new_job and next_run of its _schedule_next_recurrence
    \* ---- retry_failed_jobs and the batch_jobs rows it reads and updates
    rf_status,          \* per job: status of the row
    rf_retry_count,     \* per job: retry_count of the row
    rf_pc,              \* the retry_failed_jobs invocation: "idle" | "looping"
    rf_failed_jobs,     \* failed_jobs of the invocation: the listed objects not yet visited
    rf_retried_count,   \* retried_count of the invocation
    rf_skipped,         \* history: listed jobs the invocation left alone, can_retry() being false
    \* ---- one BatchJob object and its progress fields
    up_total_items,         \* job.total_items
    up_processed_items,     \* job.processed_items
    up_failed_items,        \* job.failed_items
    up_progress_percentage, \* job.progress_percentage, the quotient num / den
    up_last,                \* history: the last operation on the object and its arguments
    \* ---- the batch_jobs rows written by create_batch_job
    cj_rows,                \* per job id: the persisted row (NoRow: not created)
    cj_raised,              \* history: create_batch_job calls that raised ValueError
    \* ---- _process_job_parallel of one Job and the global JobQueue it shares between runs
    pj_queue,               \* job_queue.queue: the heap of QueuedTask
    pj_exec,                \* the tasks whose execute_func a worker is awaiting
    pj_running_tasks,       \* the keys of job_queue.running_tasks
    pj_completed_tasks,     \* job_queue.completed_tasks: task_id -> result
    pj_failed_tasks,        \* job_queue.failed_tasks: task_id -> exception
    pj_pc,                  \* the run: "idle" | "adding" | "waiting" | "completed"
    pj_runs,                \* number of runs of the Job started so far
    pj_work_items,          \* work_items of the run
    pj_i,                   \* the loop variable i: start of the current group
    pj_batch_tasks,         \* batch_tasks: the task ids not yet waited for
    pj_pos,                 \* position in work_items of the item added or waited for next
    pj_results,             \* history: per awaited WorkItem, what was aggregated for it
    \* ---- SpikeProcessor._process_buffer, the drain loop of self.buffer
    dr_running,             \* self._running
    dr_pc,                  \* the drain task: "none" | "get_batch" | "store" | "sleep" | "cancelled"
    dr_batch,               \* batch: the items of the current batch not yet stored
    dr_removed,             \* history: the events get_batch took out of the buffer
    dr_stored,              \* the events _store_event committed
    \* ---- _process_job_sequential / _process_job_parallel: the item loop and the counters
    it_pc,                  \* "idle" | "process" | "update" | "checkpoint" | "except" | "done" | "raised"
    it_parallel,            \* job.parallel_processing of the run
    it_items,               \* len(work_items)
    it_total_items,         \* job.total_items, as create_batch_job stored it
    it_progress_percentage, \* job.progress_percentage of the run's BatchJob object
    it_pos,                 \* number of WorkItems the loop is through with
    it_processed,           \* job.processed_items of the run's BatchJob object
    it_failed,              \* job.failed_items of the run's BatchJob object
    it_row                  \* processed_items, failed_items, progress_percentage of the row

qvars == <<queue, running_tasks, completed_tasks, failed_tasks, starts,
           idle_workers, runs, adds, n_failures>>

qsvars == <<shutdown, stop_pc, stop_inflight>>

qcvars == <<cancel_returned, cancelled_queued>>

qwvars == <<w_pc, w_task_id, w_timeout, w_elapsed, w_outcome>>

cbvars == <<cb_state, failure_count, success_count, last_failure_time, now,
            inflight, cb_calls, streak, cb_last>>

rpvars == <<rp_pc, rp_max_retries, rp_attempt, rp_last_exception, rp_outcome,
            rp_invocations, rp_max_delay, rp_delays>>

sbvars == <<sb_pc, sb_max_size, sb_buffer, sb_items_added, sb_items_dropped, sb_taken>>

jvars == <<job_status, job_failed_items, job_error_count, job_error_message,
           jr_pc, jr_job, jr_resume, jr_left, jr_failed, jr_errors, jr_error_count,
           j_returned>>

wivars == <<wi_pc, wi_end_date, wi_checkpoint, wi_items, wi_next, wi_resumed,
            wi_original, wi_done>>

evvars == <<ev_rows, ev_pc, ev_todo, ev_pending, ev_submitted>>

spvars == <<sp_running, sp_stream, sp_drain, sp_metrics, sp_fetches, sp_fail_streak>>

slvars == <<sp_tasks, sp_active_streams, sp_stop_pc>>

tsvars == <<ts_running, ts_now, ts_status, ts_scheduled_at, ts_recurring, ts_pattern, ts_priority,
            ts_task, ts_recurrence>>

rfvars == <<rf_status, rf_retry_count, rf_pc, rf_failed_jobs, rf_retried_count, rf_skipped>>

upvars == <<up_total_items, up_processed_items, up_failed_items, up_progress_percentage, up_last>>

cjvars == <<cj_rows, cj_raised>>

pjvars == <<pj_queue, pj_exec, pj_running_tasks, pj_completed_tasks, pj_failed_tasks,
            pj_pc, pj_runs, pj_work_items, pj_i, pj_batch_tasks, pj_pos, pj_results>>

drvars == <<dr_running, dr_pc, dr_batch, dr_removed, dr_stored>>

itvars == <<it_pc, it_parallel, it_items, it_total_items, it_progress_percentage, it_pos,
            it_processed, it_failed, it_row>>

vars == <<qvars, qsvars, qcvars, qwvars, cbvars, rpvars, sbvars, jvars, wivars, evvars, spvars, slvars, tsvars, rfvars, upvars, cjvars, pjvars, drvars, itvars>>

\* what a step of one component leaves unchanged
qrest == <<qsvars, qcvars, qwvars, cbvars, rpvars, sbvars, jvars, wivars, evvars, spvars, slvars, tsvars, rfvars, upvars, cjvars, pjvars, drvars, itvars>>
qsrest == <<qcvars, qwvars, cbvars, rpvars, sbvars, jvars, wivars, evvars, spvars, slvars, tsvars, rfvars, upvars, cjvars, pjvars, drvars, itvars>>
qcrest == <<qsvars, qwvars, cbvars, rpvars, sbvars, jvars, wivars, evvars, spvars, slvars, tsvars, rfvars, upvars, cjvars, pjvars, drvars, itvars>>
qwrest == <<qvars, qsvars, qcvars, cbvars, rpvars, sbvars, jvars, wivars, evvars, spvars, slvars, tsvars, rfvars, upvars, cjvars, pjvars, drvars, itvars>>
cbrest == <<qvars, qsvars, qcvars, qwvars, rpvars, sbvars, jvars, wivars, evvars, spvars, slvars, tsvars, rfvars, upvars, cjvars, pjvars, drvars, itvars>>
rprest == <<qvars, qsvars, qcvars, qwvars, cbvars, sbvars, jvars, wivars, evvars, spvars, slvars, tsvars, rfvars, upvars, cjvars, pjvars, drvars, itvars>>
sbrest == <<qvars, qsvars, qcvars, qwvars, cbvars, rpvars, jvars, wivars, evvars, spvars, slvars, tsvars, rfvars, upvars, cjvars, pjvars, drvars, itvars>>
jrest == <<qvars, qsvars, qcvars, qwvars, cbvars, rpvars, sbvars, wivars, evvars, spvars, slvars, tsvars, rfvars, upvars, cjvars, pjvars, drvars, itvars>>
wirest == <<qvars, qsvars, qcvars, qwvars, cbvars, rpvars, sbvars, jvars, evvars, spvars, slvars, tsvars, rfvars, upvars, cjvars, pjvars, drvars, itvars>>
evrest == <<qvars, qsvars, qcvars, qwvars, cbvars, rpvars, sbvars, jvars, wivars, spvars, slvars, tsvars, rfvars, upvars, cjvars, pjvars, drvars, itvars>>
sprest == <<qvars, qsvars, qcvars, qwvars, cbvars, rpvars, sbvars, jvars, wivars, evvars, slvars, tsvars, rfvars, upvars, cjvars, pjvars, drvars, itvars>>
slrest == <<qvars, qsvars, qcvars, qwvars, cbvars, rpvars, sbvars, jvars, wivars, evvars, tsvars, rfvars, upvars, cjvars, pjvars, drvars, itvars>>
tsrest == <<qvars, qsvars, qcvars, qwvars, cbvars, rpvars, sbvars, jvars, wivars, evvars, spvars, slvars, rfvars, upvars, cjvars, pjvars, drvars, itvars>>
rfrest == <<qvars, qsvars, qcvars, qwvars, cbvars, rpvars, sbvars, jvars, wivars, evvars, spvars, slvars, tsvars, upvars, cjvars, pjvars, drvars, itvars>>
uprest == <<qvars, qsvars, qcvars, qwvars, cbvars, rpvars, sbvars, jvars, wivars, evvars, spvars, slvars, tsvars, rfvars, cjvars, pjvars, drvars, itvars>>
cjrest == <<qvars, qsvars, qcvars, qwvars, cbvars, rpvars, sbvars, jvars, wivars, evvars, spvars, slvars, tsvars, rfvars, upvars, pjvars, drvars, itvars>>
pjrest == <<qvars, qsvars, qcvars, qwvars, cbvars, rpvars, sbvars, jvars, wivars, evvars, spvars, slvars, tsvars, rfvars, upvars, cjvars, drvars, itvars>>

drrest == <<qvars, qsvars, qcvars, qwvars, cbvars, rpvars, jvars, wivars, evvars, spvars, slvars, tsvars, rfvars, upvars, cjvars, pjvars, itvars>>

itrest == <<qvars, qsvars, qcvars, qwvars, cbvars, rpvars, sbvars, jvars, wivars, evvars, spvars, slvars, tsvars, rfvars, upvars, cjvars, pjvars, drvars>>

(***************************************************************************)
(* heapq, as CPython implements it, over QueuedTask.__lt__                 *)
(* Positions are 0-based as in the source; h[p+1] is heap[p].              *)
(***************************************************************************)
\* QueuedTask.__lt__
TaskLt(a, b) == a.priority < b.priority

RECURSIVE SiftDownLoop(_, _, _, _)
SiftDownLoop(h, startpos, pos, newitem) ==
    IF pos > startpos
    THEN LET parentpos == (pos - 1) \div 2
             parent == h[parentpos + 1]
         IN  IF TaskLt(newitem, parent)
             THEN SiftDownLoop([h EXCEPT ![pos + 1] = parent], startpos, parentpos, newitem)
             ELSE [h EXCEPT ![pos + 1] = newitem]
    ELSE [h EXCEPT ![pos + 1] = newitem]

\* heapq._siftdown(heap, startpos, pos)
siftdown(h, startpos, pos) == SiftDownLoop(h, startpos, pos, h[pos + 1])

RECURSIVE SiftUpLoop(_, _, _)
SiftUpLoop(h, pos, childpos) ==
    IF childpos < Len(h)
    THEN LET rightpos == childpos + 1
             c == IF rightpos < Len(h) /\ ~TaskLt(h[childpos + 1], h[rightpos + 1])
                  THEN rightpos ELSE childpos
         IN  SiftUpLoop([h EXCEPT ![pos + 1] = h[c + 1]], c, 2 * c + 1)
    ELSE [h |-> h, pos |-> pos]

\* heapq._siftup(heap, pos)
siftup(h, pos) ==
    LET newitem == h[pos + 1]
        r == SiftUpLoop(h, pos, 2 * pos + 1)
    IN  siftdown([r.h EXCEPT ![r.pos + 1] = newitem], pos, r.pos)

\* heapq.heappush(heap, item)
heappush(h, item) == siftdown(Append(h, item), 0, Len(h))

\* heapq.heappop(heap): the item returned and the heap left
heappop(h) ==
    LET lastelt == h[Len(h)]
        rest == SubSeq(h, 1, Len(h) - 1)
    IN  IF rest = <<>>
        THEN [item |-> lastelt, heap |-> <<>>]
        ELSE [item |-> rest[1], heap |-> siftup([rest EXCEPT ![1] = lastelt], 0)]

RECURSIVE HeapifyLoop(_, _)
HeapifyLoop(x, i) == IF i < 0 THEN x ELSE HeapifyLoop(siftup(x, i), i - 1)

\* a re-heapify that leaves the list as the filter left it
heapify_noop(x) == x

\* heapq.heapify(x)
heapify(x) == HeapifyLoop(x, (Len(x) \div 2) - 1)

(***************************************************************************)
(* JobQueue                                                                *)
(***************************************************************************)
\* what execute_func of a task returns, and the exception object it raises
\* when it fails: opaque values, told apart by the task they belong to
ResultOf(t) == [result |-> "completed", of |-> t.task_id]
ExcOf(t) == [error |-> "Exception", of |-> t.task_id]

MapPut(f, k, v) == [x \in DOMAIN f \cup {k} |-> IF x = k THEN v ELSE f[x]]
MapDel(f, k) == [x \in DOMAIN f \ {k} |-> f[x]]

\* workers whose coroutine is still in its loop
ExecRuns == {r \in Runs : runs[r].st \in {"exec", "cancelling"}}
LiveWorkers == idle_workers + Cardinality(ExecRuns)

NoCancel == [task_id |-> 0, ret |-> FALSE]
NoTimeout == 0
NoOutcome == [kind |-> "none", value |-> NoTask]

InitQueue ==
    /\ queue = <<>>
    /\ running_tasks = EmptyMap
    /\ completed_tasks = EmptyMap
    /\ failed_tasks = EmptyMap
    /\ starts = 0
    /\ idle_workers = 0
    /\ runs = [r \in Runs |-> [task |-> NoTask, st |-> "free"]]
    /\ adds = 0
    /\ n_failures = 0
    /\ shutdown = FALSE
    /\ stop_pc = "idle"
    /\ stop_inflight = {}
    /\ cancel_returned = NoCancel
    /\ cancelled_queued = {}
    /\ w_pc = "idle"
    /\ w_task_id = 0
    /\ w_timeout = NoTimeout
    /\ w_elapsed = 0
    /\ w_outcome = NoOutcome

\* JobQueue.start: max_concurrent new workers on every call; a worker
\* created after stop() finds _shutdown set at its first loop test and ends
start ==
    /\ starts < MaxStarts
    /\ starts' = starts + 1
    /\ idle_workers' = IF shutdown THEN idle_workers ELSE idle_workers + max_concurrent
    /\ UNCHANGED <<queue, running_tasks, completed_tasks, failed_tasks, runs, adds, n_failures>>

\* JobQueue.add_task
add_task(id, prio) ==
    /\ adds < MaxAdds
    /\ adds' = adds + 1
    /\ queue' = heappush(queue, [task_id |-> id, priority |-> prio])
    /\ UNCHANGED <<running_tasks, completed_tasks, failed_tasks, starts,
                   idle_workers, runs, n_failures>>

\* what _get_next_task does once it has decided to hand out a task
HandOut ==
    LET p == heappop(queue)
        r == CHOOSE x \in Runs : runs[x].st = "free" /\ \A y \in Runs : runs[y].st = "free" => x <= y
    IN  /\ queue' = p.heap
        /\ running_tasks' = MapPut(running_tasks, p.item.task_id, r)
        /\ runs' = [runs EXCEPT ![r] = [task |-> p.item, st |-> "exec"]]
        /\ idle_workers' = idle_workers - 1
        /\ UNCHANGED <<completed_tasks, failed_tasks, starts, adds, n_failures>>

\* a dequeue that does not look at the concurrency limit
get_next_task_nolimit ==
    /\ idle_workers > 0
    /\ queue # <<>>
    /\ HandOut

\* JobQueue._get_next_task called by an idle worker and returning a task (the
\* None returns change nothing: the worker sleeps and polls again)
get_next_task ==
    /\ idle_workers > 0
    /\ queue # <<>>
    /\ ~(Cardinality(DOMAIN running_tasks) >= max_concurrent)
    /\ HandOut

\* JobQueue._worker: execute_func returned
task_complete(r) ==
    /\ runs[r].st = "exec"
    /\ completed_tasks' = MapPut(completed_tasks, runs[r].task.task_id, ResultOf(runs[r].task))
    /\ running_tasks' = MapDel(running_tasks, runs[r].task.task_id)
    /\ runs' = [runs EXCEPT ![r] = [task |-> NoTask, st |-> "free"]]
    /\ idle_workers' = idle_workers + 1
    /\ UNCHANGED <<queue, failed_tasks, starts, adds, n_failures>>

\* a worker whose loop lets the task's exception through and ends
task_fail_escapes(r) ==
    /\ runs[r].st = "exec"
    /\ failed_tasks' = MapPut(failed_tasks, runs[r].task.task_id, ExcOf(runs[r].task))
    /\ running_tasks' = MapDel(running_tasks, runs[r].task.task_id)
    /\ runs' = [runs EXCEPT ![r] = [task |-> NoTask, st |-> "free"]]
    /\ UNCHANGED <<queue, completed_tasks, starts, idle_workers, adds>>
    /\ n_failures' = n_failures + 1

\* JobQueue._worker: execute_func raised an Exception
task_fail(r) ==
    /\ runs[r].st = "exec"
    /\ failed_tasks' = MapPut(failed_tasks, runs[r].task.task_id, ExcOf(runs[r].task))
    /\ running_tasks' = MapDel(running_tasks, runs[r].task.task_id)
    /\ runs' = [runs EXCEPT ![r] = [task |-> NoTask, st |-> "free"]]
    /\ idle_workers' = idle_workers + 1
    /\ UNCHANGED <<queue, completed_tasks, starts, adds>>
    /\ n_failures' = n_failures + 1

\* JobQueue._worker: the CancelledError requested by cancel_task arrives at
\* the worker's await. It is no Exception: the inner handler is skipped, the
\* outer handler breaks the loop, and the running_tasks entry stays.
worker_cancelled(r) ==
    /\ runs[r].st = "cancelling"
    /\ runs' = [runs EXCEPT ![r] = [task |-> NoTask, st |-> "stopped"]]
    /\ UNCHANGED <<queue, running_tasks, completed_tasks, failed_tasks, starts,
                   idle_workers, adds, n_failures>>

\* JobQueue.cancel_task
cancel_task(id) ==
    LET kept == SelectSeq(queue, LAMBDA t : t.task_id # id)
    IN  IF Len(kept) < Len(queue)
        THEN /\ queue' = heapify(kept)
             /\ UNCHANGED <<running_tasks, completed_tasks, failed_tasks, starts,
                            idle_workers, runs, adds, n_failures>>
        ELSE IF id \in DOMAIN running_tasks
        THEN /\ runs' = [runs EXCEPT ![running_tasks[id]].st =
                            IF @ = "exec" THEN "cancelling" ELSE @]
             /\ UNCHANGED <<queue, running_tasks, completed_tasks, failed_tasks,
                            starts, idle_workers, adds, n_failures>>
        ELSE UNCHANGED <<queue, running_tasks, completed_tasks, failed_tasks,
                         starts, idle_workers, runs, adds, n_failures>>

(***************************************************************************)
(* JobQueue: properties                                                    *)
(***************************************************************************)
\* C1: in every reachable state the number of entries of running_tasks is at
\* most max_concurrent, also when start() was called more than once and the
\* pool has more than max_concurrent workers.
C1_ConcurrencyBound == Cardinality(DOMAIN running_tasks) <= max_concurrent

\* C1 witness: start() ran twice, running_tasks is full, and an idle worker
\* and a queued task are left waiting behind the limit.
C1_Witness ==
    /\ starts >= 2
    /\ Cardinality(DOMAIN running_tasks) = max_concurrent
    /\ idle_workers > 0
    /\ queue # <<>>

\* C2: whenever _get_next_task hands a task to a worker, the priority number
\* of that task is at most the priority number of every task still queued.
C2_DequeueIsMinimal ==
    [][\A r \in Runs :
         (runs[r].st = "free" /\ runs'[r].st = "exec")
            => \A i \in 1..Len(queue') : runs'[r].task.priority <= queue'[i].priority]_vars

\* C2 witness: a task of the most urgent priority is executing while tasks
\* of different priorities are still queued.
C2_Witness ==
    /\ \E r \in Runs : runs[r].st = "exec" /\ runs[r].task.priority = 1
    /\ Len(queue) >= 2
    /\ \E i, j \in 1..Len(queue) : queue[i].priority < queue[j].priority

\* C3: when a task's execute function raises, its exception is stored in
\* failed_tasks under the task's id, the id leaves running_tasks, and the
\* worker goes back to the top of its loop: the number of live workers is as
\* it was before the failure.
C3_FailureKeepsWorker ==
    [][n_failures' # n_failures =>
         \E r \in Runs :
            /\ runs[r].st = "exec" /\ runs'[r].st = "free"
            /\ runs[r].task.task_id \in DOMAIN failed_tasks'
            /\ failed_tasks'[runs[r].task.task_id] = ExcOf(runs[r].task)
            /\ runs[r].task.task_id \notin DOMAIN running_tasks'
            /\ idle_workers' = idle_workers + 1
            /\ LiveWorkers' = LiveWorkers]_vars

\* C3 witness: after a failure every worker of a pool started once is
\* executing a task again, so the worker whose task failed has gone on to a
\* later task.
C3_Witness ==
    /\ n_failures >= 1
    /\ starts = 1
    /\ Cardinality(ExecRuns) = max_concurrent
    /\ failed_tasks # EmptyMap

NextQueue ==
    \/ start /\ UNCHANGED qrest
    \/ \E id \in TaskIds, prio \in Prios : add_task(id, prio) /\ UNCHANGED qrest
    \/ get_next_task /\ UNCHANGED qrest
    \/ \E r \in Runs : task_complete(r) /\ UNCHANGED qrest
    \/ \E r \in Runs : task_fail(r) /\ UNCHANGED qrest
    \/ \E r \in Runs : worker_cancelled(r) /\ UNCHANGED qrest
    \/ \E id \in TaskIds : cancel_task(id) /\ UNCHANGED qrest

(***************************************************************************)
(* JobQueue.stop                                                           *)
(***************************************************************************)
\* JobQueue.stop up to its await: _shutdown is set and every worker is
\* cancelled. An idle worker is at a sleep and ends there; a worker that
\* executes a task has the CancelledError delivered at its await. With
\* nothing in running_tasks stop() returns at once.
stop ==
    /\ stop_pc # "waiting"
    /\ shutdown' = TRUE
    /\ idle_workers' = 0
    /\ runs' = [r \in Runs |-> IF runs[r].st = "exec"
                               THEN [runs[r] EXCEPT !.st = "cancelling"]
                               ELSE runs[r]]
    /\ stop_inflight' = DOMAIN running_tasks
    /\ stop_pc' = IF running_tasks = EmptyMap THEN "returned" ELSE "waiting"
    /\ UNCHANGED <<queue, running_tasks, completed_tasks, failed_tasks, starts,
                   adds, n_failures>>

\* JobQueue.stop: asyncio.gather over running_tasks.values() is done, that
\* is, every worker whose handle was in running_tasks has ended
stop_returns ==
    /\ stop_pc = "waiting"
    /\ \A id \in stop_inflight :
          id \in DOMAIN running_tasks => runs[running_tasks[id]].st \in {"free", "stopped"}
    /\ stop_pc' = "returned"
    /\ UNCHANGED <<shutdown, stop_inflight>>
    /\ UNCHANGED qvars

\* C21: stop() returns only when every task that was in running_tasks at
\* the call has been recorded in completed_tasks or failed_tasks, and after
\* it has returned no worker is given another task.
C21_StopDrainsInFlight ==
    /\ [](stop_pc = "returned" =>
             \A id \in stop_inflight :
                id \in DOMAIN completed_tasks \cup DOMAIN failed_tasks)
    /\ [][(stop_pc = "returned") =>
             (\A r \in Runs : runs[r].st = "free" => runs'[r].st # "exec")]_vars

\* add_task is given a task_id that no earlier call was given
FreshTaskId(id) == id = adds + 1

NextQueueStop ==
    \/ start /\ UNCHANGED qrest
    \/ \E id \in TaskIds, prio \in Prios :
          FreshTaskId(id) /\ add_task(id, prio) /\ UNCHANGED qrest
    \/ get_next_task /\ UNCHANGED qrest
    \/ \E r \in Runs : task_complete(r) /\ UNCHANGED qrest
    \/ \E r \in Runs : task_fail(r) /\ UNCHANGED qrest
    \/ \E r \in Runs : worker_cancelled(r) /\ UNCHANGED qrest
    \/ stop /\ UNCHANGED qsrest
    \/ stop_returns /\ UNCHANGED qsrest

(***************************************************************************)
(* JobQueue.cancel_task and what it returns                                *)
(***************************************************************************)
IsQueued(id) == \E i \in 1..Len(queue) : queue[i].task_id = id

\* the task with this id is with a worker whose coroutine has not ended
IsExecuting(id) == \E r \in ExecRuns : runs[r].task.task_id = id

\* the value cancel_task returns
cancel_task_result(id) ==
    IF IsQueued(id) THEN TRUE
    ELSE IF id \in DOMAIN running_tasks THEN TRUE
    ELSE FALSE

\* a call of cancel_task, with its return value
cancel_task_call(id) ==
    /\ cancel_task(id)
    /\ cancel_returned' = [task_id |-> id, ret |-> cancel_task_result(id)]
    /\ cancelled_queued' = IF IsQueued(id) THEN cancelled_queued \cup {id}
                           ELSE cancelled_queued

\* a step of the queue that is no cancel_task call
NoCancelCall ==
    /\ cancel_returned' = NoCancel
    /\ UNCHANGED cancelled_queued

\* C22: cancel_task on a queued task removes it and returns True, and the
\* task is never executed nor recorded as completed or failed; on a task
\* that is with a worker it requests the cancellation, returns True and
\* changes nothing else; on an id that is neither queued nor running it
\* returns False and changes nothing.
C22_CancelTask ==
    /\ [](\A id \in cancelled_queued :
             /\ ~IsExecuting(id)
             /\ id \notin DOMAIN completed_tasks \cup DOMAIN failed_tasks)
    /\ [][(cancel_returned' # NoCancel) =>
            LET id == cancel_returned'.task_id
                ret == cancel_returned'.ret
            IN  IF IsQueued(id)
                THEN /\ ret = TRUE
                     /\ \A i \in 1..Len(queue') : queue'[i].task_id # id
                     /\ UNCHANGED <<running_tasks, completed_tasks, failed_tasks, runs>>
                ELSE IF IsExecuting(id)
                THEN /\ ret = TRUE
                     /\ \E r \in Runs : /\ runs[r].task.task_id = id
                                        /\ runs'[r].st = "cancelling"
                     /\ UNCHANGED <<queue, running_tasks, completed_tasks, failed_tasks>>
                ELSE /\ ret = FALSE
                     /\ UNCHANGED qvars]_vars

NextQueueCancel ==
    \/ start /\ NoCancelCall /\ UNCHANGED qcrest
    \/ \E id \in TaskIds, prio \in Prios :
          FreshTaskId(id) /\ add_task(id, prio) /\ NoCancelCall /\ UNCHANGED qcrest
    \/ get_next_task /\ NoCancelCall /\ UNCHANGED qcrest
    \/ \E r \in Runs : task_complete(r) /\ NoCancelCall /\ UNCHANGED qcrest
    \/ \E r \in Runs : task_fail(r) /\ NoCancelCall /\ UNCHANGED qcrest
    \/ \E r \in Runs : worker_cancelled(r) /\ NoCancelCall /\ UNCHANGED qcrest
    \/ \E id \in TaskIds : cancel_task_call(id) /\ UNCHANGED qcrest

\* the workers take their steps: a worker that can dequeue does, an
\* execute function terminates, a requested cancellation is delivered
FairWorkers ==
    /\ WF_vars(get_next_task /\ NoCancelCall /\ UNCHANGED qcrest)
    /\ \A r \in Runs :
          /\ WF_vars((task_complete(r) \/ task_fail(r)) /\ NoCancelCall /\ UNCHANGED qcrest)
          /\ WF_vars(worker_cancelled(r) /\ NoCancelCall /\ UNCHANGED qcrest)

\* C32: cancelling a running task does not shrink the pool: the number of
\* live workers stays max_concurrent for each start(), every entry of
\* running_tasks eventually leaves it, and every queued task eventually
\* leaves the queue of a started JobQueue (stop() is not called).
C32_CancelKeepsPool ==
    /\ [](LiveWorkers = starts * max_concurrent)
    /\ \A id \in TaskIds :
          /\ (id \in DOMAIN running_tasks) ~> (id \notin DOMAIN running_tasks)
          /\ (starts >= 1 /\ IsQueued(id)) ~> ~IsQueued(id)

(***************************************************************************)
(* JobQueue.wait_for_task: one caller, followed through its polling loop   *)
(***************************************************************************)
Timeouts == {NoTimeout} \cup (1..(MaxWait - 1))

\* wait_for_task is called: start_time is taken
wait_for_task(task_id, timeout) ==
    /\ w_pc \in {"idle", "returned", "raised", "timeout"}
    /\ w_pc' = "check"
    /\ w_task_id' = task_id
    /\ w_timeout' = timeout
    /\ w_elapsed' = 0
    /\ w_outcome' = NoOutcome

\* the checks of one turn of a loop that gives up when elapsed reaches timeout
wait_for_task_checks_early ==
    /\ w_pc = "check"
    /\ IF w_task_id \in DOMAIN completed_tasks
       THEN /\ w_pc' = "returned"
            /\ w_outcome' = [kind |-> "result", value |-> completed_tasks[w_task_id]]
       ELSE IF w_task_id \in DOMAIN failed_tasks
       THEN /\ w_pc' = "raised"
            /\ w_outcome' = [kind |-> "exception", value |-> failed_tasks[w_task_id]]
       ELSE IF w_timeout # NoTimeout /\ w_elapsed >= w_timeout
       THEN /\ w_pc' = "timeout"
            /\ w_outcome' = [kind |-> "TimeoutError", value |-> NoTask]
       ELSE /\ w_pc' = "sleep"
            /\ UNCHANGED w_outcome
    /\ UNCHANGED <<w_task_id, w_timeout, w_elapsed>>

\* wait_for_task: the checks of one turn of its loop: completed, failed,
\* timeout, in this order; otherwise it sleeps
wait_for_task_checks ==
    /\ w_pc = "check"
    /\ IF w_task_id \in DOMAIN completed_tasks
       THEN /\ w_pc' = "returned"
            /\ w_outcome' = [kind |-> "result", value |-> completed_tasks[w_task_id]]
       ELSE IF w_task_id \in DOMAIN failed_tasks
       THEN /\ w_pc' = "raised"
            /\ w_outcome' = [kind |-> "exception", value |-> failed_tasks[w_task_id]]
       ELSE IF w_timeout # NoTimeout /\ w_elapsed > w_timeout
       THEN /\ w_pc' = "timeout"
            /\ w_outcome' = [kind |-> "TimeoutError", value |-> NoTask]
       ELSE /\ w_pc' = "sleep"
            /\ UNCHANGED w_outcome
    /\ UNCHANGED <<w_task_id, w_timeout, w_elapsed>>

\* wait_for_task: asyncio.sleep(0.1) is over; time has passed or not, at
\* the granularity of the clock
wait_for_task_wakes(passed) ==
    /\ w_pc = "sleep"
    /\ w_elapsed + passed <= MaxWait
    /\ w_elapsed' = w_elapsed + passed
    /\ w_pc' = "check"
    /\ UNCHANGED <<w_task_id, w_timeout, w_outcome>>

\* C23: a wait_for_task call ends in exactly one of three ways: it returns
\* the stored result when its task_id is in completed_tasks; it raises the
\* stored exception when the task_id is in failed_tasks; with a timeout it
\* raises TimeoutError when the deadline has passed and the task is in
\* neither map; otherwise it goes on waiting. No step of the call changes
\* the queue, running_tasks, completed_tasks, failed_tasks or the workers.
C23_WaitForTask ==
    [][/\ (w_pc = "check" /\ w_pc' # "check") =>
            /\ (w_pc' = "returned") <=> (w_task_id \in DOMAIN completed_tasks)
            /\ (w_pc' = "returned") => (w_outcome'.value = completed_tasks[w_task_id])
            /\ (w_pc' = "raised") <=> (/\ w_task_id \notin DOMAIN completed_tasks
                                       /\ w_task_id \in DOMAIN failed_tasks)
            /\ (w_pc' = "raised") => (w_outcome'.value = failed_tasks[w_task_id])
            /\ (w_pc' = "timeout") <=>
                  (/\ w_task_id \notin DOMAIN completed_tasks \cup DOMAIN failed_tasks
                   /\ w_timeout # NoTimeout
                   /\ w_elapsed > w_timeout)
            /\ w_pc' \in {"returned", "raised", "timeout", "sleep"}
       /\ (qwvars' # qwvars) => UNCHANGED <<qvars, qsvars>>]_vars

\* a call with a timeout sleeps, the task fails meanwhile, and the call
\* raises the stored exception although the deadline has passed as well
C23_Witness ==
    /\ w_pc = "raised"
    /\ w_timeout = 1
    /\ w_elapsed = 2
    /\ w_outcome.value = failed_tasks[w_task_id]
    /\ Cardinality(ExecRuns) = max_concurrent

NextQueueWait ==
    \/ start /\ UNCHANGED qrest
    \/ \E id \in TaskIds : FreshTaskId(id) /\ add_task(id, 5) /\ UNCHANGED qrest
    \/ get_next_task /\ UNCHANGED qrest
    \/ \E r \in Runs : task_complete(r) /\ UNCHANGED qrest
    \/ \E r \in Runs : task_fail(r) /\ UNCHANGED qrest
    \/ \E id \in TaskIds, t \in Timeouts : wait_for_task(id, t) /\ UNCHANGED qwrest
    \/ wait_for_task_checks /\ UNCHANGED qwrest
    \/ \E d \in {0, 1} : wait_for_task_wakes(d) /\ UNCHANGED qwrest

(***************************************************************************)
(* CircuitBreaker                                                          *)
(***************************************************************************)
NoTime == -1
FailureKinds == {"exception", "timeout"}   \* func raised / asyncio.wait_for timed out

InitBreaker ==
    /\ cb_state = "closed"
    /\ failure_count = 0
    /\ success_count = 0
    /\ last_failure_time = NoTime
    /\ now = 0
    /\ inflight = 0
    /\ cb_calls = 0
    /\ streak = 0
    /\ cb_last = "init"

\* a reset test that wants more than recovery_timeout to have elapsed
should_attempt_reset_strict ==
    IF last_failure_time # NoTime
    THEN now - last_failure_time > recovery_timeout
    ELSE FALSE

\* CircuitBreaker._should_attempt_reset
should_attempt_reset ==
    IF last_failure_time # NoTime
    THEN now - last_failure_time >= recovery_timeout
    ELSE FALSE

\* a success handler that closes only after more than success_threshold successes
on_success_late ==
    /\ IF cb_state = "half_open"
       THEN IF success_count + 1 > success_threshold
            THEN /\ cb_state' = "closed"
                 /\ failure_count' = 0
                 /\ success_count' = 0
            ELSE /\ success_count' = success_count + 1
                 /\ UNCHANGED <<cb_state, failure_count>>
       ELSE IF cb_state = "closed"
       THEN /\ failure_count' = 0
            /\ UNCHANGED <<cb_state, success_count>>
       ELSE UNCHANGED <<cb_state, failure_count, success_count>>
    /\ UNCHANGED last_failure_time

\* CircuitBreaker._on_success
on_success ==
    /\ IF cb_state = "half_open"
       THEN IF success_count + 1 >= success_threshold
            THEN /\ cb_state' = "closed"
                 /\ failure_count' = 0
                 /\ success_count' = 0
            ELSE /\ success_count' = success_count + 1
                 /\ UNCHANGED <<cb_state, failure_count>>
       ELSE IF cb_state = "closed"
       THEN /\ failure_count' = 0
            /\ UNCHANGED <<cb_state, success_count>>
       ELSE UNCHANGED <<cb_state, failure_count, success_count>>
    /\ UNCHANGED last_failure_time

\* a failure handler that opens only once failure_count exceeds the threshold
on_failure_late ==
    /\ failure_count' = failure_count + 1
    /\ last_failure_time' = now
    /\ IF cb_state = "half_open"
       THEN /\ cb_state' = "open"
            /\ success_count' = 0
       ELSE IF cb_state = "closed"
       THEN /\ cb_state' = IF failure_count + 1 > failure_threshold THEN "open" ELSE "closed"
            /\ UNCHANGED success_count
       ELSE UNCHANGED <<cb_state, success_count>>

\* a failure handler that records the failure time only while Closed or Open
on_failure_notime ==
    /\ failure_count' = failure_count + 1
    /\ IF cb_state = "half_open"
       THEN /\ cb_state' = "open"
            /\ success_count' = 0
            /\ UNCHANGED last_failure_time
       ELSE IF cb_state = "closed"
       THEN /\ cb_state' = IF failure_count + 1 >= failure_threshold THEN "open" ELSE "closed"
            /\ last_failure_time' = now
            /\ UNCHANGED success_count
       ELSE /\ last_failure_time' = now
            /\ UNCHANGED <<cb_state, success_count>>

\* CircuitBreaker._on_failure
on_failure ==
    /\ failure_count' = failure_count + 1
    /\ last_failure_time' = now
    /\ IF cb_state = "half_open"
       THEN /\ cb_state' = "open"
            /\ success_count' = 0
       ELSE IF cb_state = "closed"
       THEN /\ cb_state' = IF failure_count + 1 >= failure_threshold THEN "open" ELSE "closed"
            /\ UNCHANGED success_count
       ELSE UNCHANGED <<cb_state, success_count>>

\* CircuitBreaker.call up to the point where func is awaited: the state check
\* under the lock, which rejects the call or lets it through
call_enter ==
    /\ cb_calls < MaxCalls
    /\ inflight < MaxInflight
    /\ cb_calls' = cb_calls + 1
    /\ IF cb_state = "open"
       THEN IF should_attempt_reset
            THEN /\ cb_state' = "half_open"
                 /\ inflight' = inflight + 1
                 /\ cb_last' = "admit"
            ELSE /\ cb_last' = "reject"
                 /\ UNCHANGED <<cb_state, inflight>>
       ELSE /\ inflight' = inflight + 1
            /\ cb_last' = "admit"
            /\ UNCHANGED cb_state
    /\ UNCHANGED <<failure_count, success_count, last_failure_time, now, streak>>

\* CircuitBreaker.call: func returned within the timeout
call_success ==
    /\ inflight > 0
    /\ inflight' = inflight - 1
    /\ on_success
    /\ streak' = 0
    /\ cb_last' = "success"
    /\ UNCHANGED <<now, cb_calls>>

\* CircuitBreaker.call: func raised, or asyncio.wait_for timed out
call_failure(kind) ==
    /\ inflight > 0
    /\ inflight' = inflight - 1
    /\ on_failure
    /\ streak' = streak + 1
    /\ cb_last' = "failure"
    /\ UNCHANGED <<now, cb_calls>>

\* CircuitBreaker.call: the caller was cancelled while func was awaited; a
\* CancelledError is no Exception, so neither handler runs
call_abandoned ==
    /\ inflight > 0
    /\ inflight' = inflight - 1
    /\ cb_last' = "abandoned"
    /\ UNCHANGED <<cb_state, failure_count, success_count, last_failure_time,
                   now, cb_calls, streak>>

\* the clock
tick ==
    /\ now < MaxTime
    /\ now' = now + 1
    /\ cb_last' = "tick"
    /\ UNCHANGED <<cb_state, failure_count, success_count, last_failure_time,
                   inflight, cb_calls, streak>>

(***************************************************************************)
(* CircuitBreaker: properties                                              *)
(***************************************************************************)
\* C4: while Closed, failure_count is the number of failed calls since the
\* last success and is below failure_threshold; a failed call (exception or
\* timeout) adds one and opens the breaker exactly when the count reaches
\* failure_threshold; a success resets the count to 0 and leaves it Closed;
\* nothing else moves a Closed breaker.
C4_ClosedToOpen ==
    [][/\ cb_state = "closed" =>
            /\ failure_count = streak
            /\ failure_count < failure_threshold
            /\ cb_last' = "failure" =>
                  /\ failure_count' = failure_count + 1
                  /\ cb_state' = IF failure_count' = failure_threshold THEN "open" ELSE "closed"
            /\ cb_last' = "success" => (failure_count' = 0 /\ cb_state' = "closed")
            /\ cb_state' = "open" => (cb_last' = "failure" /\ streak' = failure_threshold)
            /\ cb_state' \in {"closed", "open"}
       /\ cb_state' = "closed" => (failure_count' = streak' /\ failure_count' < failure_threshold)
      ]_vars

\* C4 witness: the breaker has just opened on the failure that completed a
\* streak of failure_threshold failures, after an earlier success.
C4_Witness ==
    /\ cb_state = "open"
    /\ cb_last = "failure"
    /\ streak = failure_threshold
    /\ failure_count = failure_threshold
    /\ cb_calls > failure_threshold

C6_HalfOpenSuccess ==
    [][(cb_state = "half_open" /\ cb_last' = "success") =>
         IF success_count + 1 = success_threshold
         THEN cb_state' = "closed" /\ failure_count' = 0 /\ success_count' = 0
         ELSE /\ cb_state' = "half_open"
              /\ success_count' = success_count + 1
              /\ success_count' < success_threshold]_vars

\* C6 witness: the breaker has just been closed by a success, after having
\* been Open (last_failure_time is set).
C6_Witness ==
    /\ cb_state = "closed"
    /\ cb_last = "success"
    /\ last_failure_time # NoTime
    /\ failure_count = 0
    /\ success_count = 0

\* C7: while HalfOpen a failed call re-opens the breaker, resets
\* success_count to 0 and records the failure time; and an Open breaker lets
\* no call through before recovery_timeout has elapsed since that time.
C7_HalfOpenFailure ==
    [][/\ (cb_state = "half_open" /\ cb_last' = "failure") =>
            /\ cb_state' = "open"
            /\ success_count' = 0
            /\ last_failure_time' = now
       /\ (cb_state = "open" /\ inflight' = inflight + 1) =>
            now - last_failure_time >= recovery_timeout]_vars

\* C7 witness: a call has been let through again, a full recovery_timeout
\* after a failure of a HalfOpen probe re-opened the breaker.
C7_Witness ==
    /\ cb_state = "half_open"
    /\ cb_last = "admit"
    /\ last_failure_time >= recovery_timeout
    /\ now - last_failure_time = recovery_timeout
    /\ success_count = 0

\* C35: in every reachable state, also when calls overlap and complete in
\* any order: Closed implies failure_count < failure_threshold; HalfOpen
\* implies success_count < success_threshold; Closed or Open implies
\* success_count = 0.
C35_BreakerCounters ==
    /\ cb_state = "closed" => failure_count < failure_threshold
    /\ cb_state = "half_open" => success_count < success_threshold
    /\ cb_state \in {"closed", "open"} => success_count = 0

\* two calls overlap while the breaker is HalfOpen with one success short of
\* closing, after more failures than the threshold were counted
C35_Witness ==
    /\ cb_state = "half_open"
    /\ success_count = success_threshold - 1
    /\ inflight = MaxInflight
    /\ failure_count > failure_threshold

NextBreaker ==
    \/ call_enter /\ UNCHANGED cbrest
    \/ call_success /\ UNCHANGED cbrest
    \/ \E kind \in FailureKinds : call_failure(kind) /\ UNCHANGED cbrest
    \/ call_abandoned /\ UNCHANGED cbrest
    \/ tick /\ UNCHANGED cbrest

(***************************************************************************)
(* RetryPolicy                                                             *)
(***************************************************************************)
RetryExcs == {"E1", "E2"}      \* exceptions func may raise
RetryResults == {"R1", "R2"}   \* values func may return
None == "None"
initial_delay == 1             \* initial_delay, in seconds
backoff_factor == 2            \* backoff_factor
MaxDelays == {3, 60}           \* RetryPolicy(max_delay=...), in seconds

InitRetry ==
    /\ rp_pc = "new"
    /\ rp_max_retries = 0
    /\ rp_attempt = 0
    /\ rp_last_exception = None
    /\ rp_outcome = None
    /\ rp_invocations = <<>>
    /\ rp_max_delay = 0
    /\ rp_delays = <<>>

\* RetryPolicy.__init__, with jitter=False
retry_policy(m, d) ==
    /\ rp_pc = "new"
    /\ rp_pc' = "ready"
    /\ rp_max_retries' = m
    /\ rp_max_delay' = d
    /\ UNCHANGED <<rp_attempt, rp_last_exception, rp_outcome, rp_invocations, rp_delays>>

\* base ** exponent
RECURSIVE Pow(_, _)
Pow(base, exponent) == IF exponent = 0 THEN 1 ELSE base * Pow(base, exponent - 1)

\* a delay that max_delay does not limit
calculate_delay_uncapped(attempt) ==
    initial_delay * Pow(backoff_factor, attempt)

\* RetryPolicy._calculate_delay, jitter off
calculate_delay(attempt) ==
    LET delay == initial_delay * Pow(backoff_factor, attempt)
    IN  IF delay < rp_max_delay THEN delay ELSE rp_max_delay

\* RetryPolicy.execute: entry, up to the first invocation of func
execute ==
    /\ rp_pc = "ready"
    /\ rp_pc' = "calling"
    /\ rp_attempt' = 0
    /\ rp_last_exception' = None
    /\ UNCHANGED <<rp_max_retries, rp_outcome, rp_invocations, rp_max_delay, rp_delays>>

\* RetryPolicy.execute: func returned v
func_returns(v) ==
    /\ rp_pc = "calling"
    /\ rp_invocations' = Append(rp_invocations, v)
    /\ rp_outcome' = v
    /\ rp_pc' = "returned"
    /\ UNCHANGED <<rp_max_retries, rp_attempt, rp_last_exception, rp_max_delay, rp_delays>>

\* an execute whose loop runs max_retries times
func_raises_short(e) ==
    /\ rp_pc = "calling"
    /\ rp_invocations' = Append(rp_invocations, e)
    /\ rp_last_exception' = e
    /\ IF rp_attempt < rp_max_retries - 1
       THEN /\ rp_pc' = "sleeping"
            /\ rp_delays' = Append(rp_delays, calculate_delay(rp_attempt))
            /\ UNCHANGED rp_outcome
       ELSE /\ rp_pc' = "raised"
            /\ rp_outcome' = e
            /\ UNCHANGED rp_delays
    /\ UNCHANGED <<rp_max_retries, rp_attempt, rp_max_delay>>

\* RetryPolicy.execute: func raised the Exception e; after the last attempt
\* the loop ends and last_exception is raised
func_raises(e) ==
    /\ rp_pc = "calling"
    /\ rp_invocations' = Append(rp_invocations, e)
    /\ rp_last_exception' = e
    /\ IF rp_attempt < rp_max_retries
       THEN /\ rp_pc' = "sleeping"
            /\ rp_delays' = Append(rp_delays, calculate_delay(rp_attempt))
            /\ UNCHANGED rp_outcome
       ELSE /\ rp_pc' = "raised"
            /\ rp_outcome' = e
            /\ UNCHANGED rp_delays
    /\ UNCHANGED <<rp_max_retries, rp_attempt, rp_max_delay>>

\* RetryPolicy.execute: asyncio.sleep(delay) is over, next iteration
retry_wakes ==
    /\ rp_pc = "sleeping"
    /\ rp_attempt' = rp_attempt + 1
    /\ rp_pc' = "calling"
    /\ UNCHANGED <<rp_max_retries, rp_last_exception, rp_outcome, rp_invocations, rp_max_delay, rp_delays>>

\* RetryPolicy.execute: the caller is cancelled while func or the sleep is
\* awaited; a CancelledError is no Exception and leaves execute at once
execute_cancelled ==
    /\ rp_pc \in {"calling", "sleeping"}
    /\ rp_pc' = "cancelled"
    /\ rp_outcome' = "CancelledError"
    /\ UNCHANGED <<rp_max_retries, rp_attempt, rp_last_exception, rp_invocations, rp_max_delay, rp_delays>>

\* C8: execute invokes func until its first success or until it has failed
\* max_retries + 1 times. It returns the first successful result without
\* invoking func again; when every attempt fails, func has been invoked
\* exactly max_retries + 1 times and execute raises the exception of the
\* final attempt, unchanged.
C8_RetryUntilSuccessOrExhausted ==
    LET n == Len(rp_invocations)
        failures == {i \in 1..n : rp_invocations[i] \in RetryExcs}
    IN  /\ n <= rp_max_retries + 1
        /\ \A i \in 1..(n - 1) : i \in failures
        /\ rp_pc = "calling" => n = rp_attempt /\ failures = 1..n
        /\ rp_pc = "sleeping" => n = rp_attempt + 1 /\ failures = 1..n /\ n <= rp_max_retries
        /\ rp_pc = "returned" =>
              /\ n >= 1
              /\ rp_invocations[n] \in RetryResults
              /\ rp_outcome = rp_invocations[n]
        /\ rp_pc = "raised" =>
              /\ n = rp_max_retries + 1
              /\ failures = 1..n
              /\ rp_outcome = rp_invocations[n]

\* every attempt failed, with different exceptions, and the last one is raised
C8_Witness ==
    /\ rp_pc = "raised"
    /\ rp_max_retries = 2
    /\ rp_invocations = <<"E1", "E1", "E2">>
    /\ rp_outcome = "E2"

\* C39 as stated: with jitter off, the delay slept before attempt i (i >= 1,
\* attempt 0 being the first invocation) is
\* min(initial_delay * backoff_factor^i, max_delay), and no delay follows
\* the final failed attempt.
C39_DelayBeforeAttemptUsesItsIndex ==
    /\ \A i \in 1..Len(rp_delays) :
          LET delay == initial_delay * Pow(backoff_factor, i)
          IN  rp_delays[i] = IF delay < rp_max_delay THEN delay ELSE rp_max_delay
    /\ rp_pc = "raised" => Len(rp_delays) = rp_max_retries

\* C39: with jitter off, the delay slept before attempt i (i >= 1) is
\* min(initial_delay * backoff_factor^(i - 1), max_delay): the exponent is
\* the index of the attempt that just failed, so the first delay is
\* initial_delay; one delay precedes every attempt after the first and no
\* delay follows the final failed attempt.
C39_DelayBeforeAttemptUsesFailedIndex ==
    /\ \A i \in 1..Len(rp_delays) :
          LET delay == initial_delay * Pow(backoff_factor, i - 1)
          IN  rp_delays[i] = IF delay < rp_max_delay THEN delay ELSE rp_max_delay
    /\ rp_pc \in {"ready", "new"} => rp_delays = <<>>
    /\ rp_pc = "calling" => Len(rp_delays) = rp_attempt
    /\ rp_pc = "sleeping" => Len(rp_delays) = rp_attempt + 1
    /\ rp_pc \in {"returned", "raised"} => Len(rp_delays) = Len(rp_invocations) - 1
    /\ rp_pc = "raised" => Len(rp_delays) = rp_max_retries

\* four failed attempts under max_delay = 3: the delays were 1, 2 and
\* min(4, 3), and none followed the last failure
C39_Witness ==
    /\ rp_pc = "raised"
    /\ rp_max_retries = 3
    /\ rp_max_delay = 3
    /\ Len(rp_invocations) = 4
    /\ rp_delays = <<1, 2, 3>>

NextRetry ==
    \/ \E m \in 0..MaxRetries, d \in MaxDelays : retry_policy(m, d) /\ UNCHANGED rprest
    \/ execute /\ UNCHANGED rprest
    \/ \E v \in RetryResults : func_returns(v) /\ UNCHANGED rprest
    \/ \E e \in RetryExcs : func_raises(e) /\ UNCHANGED rprest
    \/ retry_wakes /\ UNCHANGED rprest
    \/ execute_cancelled /\ UNCHANGED rprest

(***************************************************************************)
(* StreamBuffer. Items are opaque: the model names an item by the number   *)
(* of items added before it, so the items added are 0, 1, 2, ... in order. *)
(***************************************************************************)
InitBuffer ==
    /\ sb_pc = "new"
    /\ sb_max_size = 0
    /\ sb_buffer = <<>>
    /\ sb_items_added = 0
    /\ sb_items_dropped = 0
    /\ sb_taken = 0

\* Python's list[n:] for n >= 0
DropFirst(l, n) == SubSeq(l, n + 1, Len(l))
\* Python's list[:n] for n >= 0
TakeFirst(l, n) == SubSeq(l, 1, IF n < Len(l) THEN n ELSE Len(l))

\* StreamBuffer.__init__
stream_buffer(m) ==
    /\ sb_pc = "new"
    /\ sb_pc' = "ready"
    /\ sb_max_size' = m
    /\ UNCHANGED <<sb_buffer, sb_items_added, sb_items_dropped, sb_taken>>

\* an add that cuts the overflow off the new end
add_keeps_oldest(item) ==
    /\ sb_pc = "ready"
    /\ sb_items_added < MaxBufAdds
    /\ sb_items_added' = sb_items_added + 1
    /\ LET appended == Append(sb_buffer, item)
       IN  IF Len(appended) > sb_max_size
           THEN LET removed == Len(appended) - sb_max_size
                IN  /\ sb_buffer' = TakeFirst(appended, sb_max_size)
                    /\ sb_items_dropped' = sb_items_dropped + removed
           ELSE /\ sb_buffer' = appended
                /\ UNCHANGED sb_items_dropped
    /\ UNCHANGED <<sb_pc, sb_max_size, sb_taken>>

\* StreamBuffer.add
add(item) ==
    /\ sb_pc = "ready"
    /\ sb_items_added < MaxBufAdds
    /\ sb_items_added' = sb_items_added + 1
    /\ LET appended == Append(sb_buffer, item)
       IN  IF Len(appended) > sb_max_size
           THEN LET removed == Len(appended) - sb_max_size
                IN  /\ sb_buffer' = DropFirst(appended, removed)
                    /\ sb_items_dropped' = sb_items_dropped + removed
           ELSE /\ sb_buffer' = appended
                /\ UNCHANGED sb_items_dropped
    /\ UNCHANGED <<sb_pc, sb_max_size, sb_taken>>

\* StreamBuffer.get_batch
get_batch(batch_size) ==
    /\ sb_pc = "ready"
    /\ sb_buffer' = DropFirst(sb_buffer, Len(TakeFirst(sb_buffer, batch_size)))
    /\ sb_taken' = sb_taken + Len(TakeFirst(sb_buffer, batch_size))
    /\ UNCHANGED <<sb_pc, sb_max_size, sb_items_added, sb_items_dropped>>

\* StreamBuffer.get_all
get_all ==
    /\ sb_pc = "ready"
    /\ sb_buffer' = <<>>
    /\ sb_taken' = sb_taken + Len(sb_buffer)
    /\ UNCHANGED <<sb_pc, sb_max_size, sb_items_added, sb_items_dropped>>

\* StreamBuffer.clear
clear ==
    /\ sb_pc = "ready"
    /\ sb_buffer' = <<>>
    /\ sb_taken' = sb_taken + Len(sb_buffer)
    /\ UNCHANGED <<sb_pc, sb_max_size, sb_items_added, sb_items_dropped>>

\* C9: a StreamBuffer with max_size >= 1 never holds more than max_size
\* items; add() always keeps the item it was given, as the last one; what
\* add() has discarded is counted by total_dropped; and as long as only
\* add() was called the buffer holds the most recently added items in
\* insertion order. With max_size = 3, five adds leave the last three items
\* and total_dropped = 2.
C9_BufferKeepsNewest ==
    /\ [](sb_pc = "ready" /\ sb_max_size >= 1 =>
            LET n == Len(sb_buffer)
                kept == IF sb_items_added < sb_max_size THEN sb_items_added ELSE sb_max_size
            IN  /\ n <= sb_max_size
                /\ sb_items_dropped + sb_taken + n = sb_items_added
                /\ sb_taken = 0 =>
                      /\ n = kept
                      /\ \A i \in 1..n : sb_buffer[i] = sb_items_added - n + i - 1
                      /\ sb_items_dropped = sb_items_added - n
                /\ sb_taken = 0 /\ sb_max_size = 3 /\ sb_items_added = 5 =>
                      /\ sb_buffer = <<2, 3, 4>>
                      /\ sb_items_dropped = 2)
    /\ [][sb_items_added' # sb_items_added /\ sb_max_size >= 1 =>
            /\ sb_buffer' # <<>>
            /\ sb_buffer'[Len(sb_buffer')] = sb_items_added
            /\ (Len(sb_buffer') <= sb_max_size)]_vars

\* max_size = 3 and five adds
C9_Witness ==
    /\ sb_max_size = 3
    /\ sb_items_added = 5
    /\ sb_taken = 0
    /\ sb_buffer = <<2, 3, 4>>
    /\ sb_items_dropped = 2

\* C29 as stated: with max_size = 3, adding the items 0, 1, 2, 3, 4 in that
\* order leaves exactly the items [3, 4] in the buffer and total_dropped = 2.
C29_FiveAddsLeaveTwo ==
    (sb_pc = "ready" /\ sb_max_size = 3 /\ sb_items_added = 5 /\ sb_taken = 0) =>
        /\ sb_buffer = <<3, 4>>
        /\ sb_items_dropped = 2

\* C29: with max_size = 3, adding the items 0, 1, 2, 3, 4 in that order
\* leaves exactly the items [2, 3, 4] in the buffer and total_dropped = 2.
C29_FiveAddsLeaveLastThree ==
    (sb_pc = "ready" /\ sb_max_size = 3 /\ sb_items_added = 5 /\ sb_taken = 0) =>
        /\ Len(sb_buffer) = 3
        /\ sb_buffer[1] = 2 /\ sb_buffer[2] = 3 /\ sb_buffer[3] = 4
        /\ sb_items_dropped = 2

\* the fifth add on a buffer of max_size 3 has returned
C29_Witness ==
    /\ sb_pc = "ready" /\ sb_max_size = 3
    /\ sb_taken = 0
    /\ sb_items_added = 5
    /\ Len(sb_buffer) = 3 /\ sb_buffer[3] = 4

NextBuffer ==
    \/ \E m \in 0..MaxBufSize : stream_buffer(m) /\ UNCHANGED sbrest
    \/ add(sb_items_added) /\ UNCHANGED sbrest
    \/ \E n \in 1..MaxBatch : get_batch(n) /\ UNCHANGED sbrest
    \/ get_all /\ UNCHANGED sbrest
    \/ clear /\ UNCHANGED sbrest

(***************************************************************************)
(* BatchProcessor and the batch_jobs table. A start_job invocation is a    *)
(* coroutine with awaits between its database statements, so pause_job,    *)
(* cancel_job and other start_job invocations interleave with it. Every    *)
(* invocation works on its own BatchJob object, loaded when it starts.     *)
(* _get_session is taken to hand out a session, as the tests patch it to.  *)
(***************************************************************************)
\* the start_job invocations that can overlap: start_job is a public
\* coroutine that only the stored status keeps from running twice for one
\* job, and a resumed job runs beside its paused run
JobRuns == {1, 2}

JobIds == {1, 2}

\* the jobs that start_job is called for; pause_job and cancel_job are
\* called for every job
StartedJobIds == {1}

\* start_job invocations are interchangeable: a new one takes the lowest
\* position that is free
FreeRun(r) == jr_pc[r] = "idle" /\ \A q \in JobRuns : q < r => jr_pc[q] # "idle"

JobStatus == {"pending", "running", "completed", "failed", "cancelled", "paused"}

\* nothing was handed to a caller by the last step
NoCall == [op |-> "none", job |-> 0, run |-> 0, ret |-> "none"]

InitJob ==
    /\ job_status = [j \in JobIds |-> "pending"]
    /\ job_failed_items = [j \in JobIds |-> 0]
    /\ job_error_count = [j \in JobIds |-> 0]
    /\ job_error_message = [j \in JobIds |-> None]
    /\ jr_pc = [r \in JobRuns |-> "idle"]
    /\ jr_job = [r \in JobRuns |-> 0]
    /\ jr_resume = [r \in JobRuns |-> FALSE]
    /\ jr_left = [r \in JobRuns |-> 0]
    /\ jr_failed = [r \in JobRuns |-> 0]
    /\ jr_errors = [r \in JobRuns |-> 0]
    /\ jr_error_count = [r \in JobRuns |-> 0]
    /\ j_returned = NoCall

\* start_job: load the job and check that it can be started; a Running or
\* Completed job raises ValueError and nothing is written
start_job_load(r, job_id, resume_from_checkpoint) ==
    /\ FreeRun(r)
    /\ IF job_status[job_id] \in {"running", "completed"}
       THEN /\ j_returned' = [op |-> "start_job", job |-> job_id, run |-> r, ret |-> "ValueError"]
            /\ UNCHANGED <<jr_pc, jr_job, jr_resume, jr_failed, jr_error_count>>
       ELSE /\ jr_pc' = [jr_pc EXCEPT ![r] = "starting"]
            /\ jr_job' = [jr_job EXCEPT ![r] = job_id]
            /\ jr_resume' = [jr_resume EXCEPT ![r] = resume_from_checkpoint]
            /\ jr_failed' = [jr_failed EXCEPT ![r] = job_failed_items[job_id]]
            /\ jr_error_count' = [jr_error_count EXCEPT ![r] = job_error_count[job_id]]
            /\ j_returned' = NoCall
    /\ UNCHANGED <<job_status, job_failed_items, job_error_count, job_error_message,
                   jr_left, jr_errors>>

\* start_job: job.status = RUNNING, the progress reset of a run that does
\* not resume, commit; then the work items of _process_job_sequential /
\* _process_job_parallel are generated and the error list is empty
start_job_commit(r, n_items) ==
    /\ jr_pc[r] = "starting"
    /\ job_status' = [job_status EXCEPT ![jr_job[r]] = "running"]
    /\ IF jr_resume[r] \/ jr_failed[r] = 0
       THEN UNCHANGED <<job_failed_items, jr_failed>>   \* attribute not modified, not written
       ELSE /\ job_failed_items' = [job_failed_items EXCEPT ![jr_job[r]] = 0]
            /\ jr_failed' = [jr_failed EXCEPT ![r] = 0]
    /\ jr_pc' = [jr_pc EXCEPT ![r] = "processing"]
    /\ jr_left' = [jr_left EXCEPT ![r] = n_items]
    /\ jr_errors' = [jr_errors EXCEPT ![r] = 0]
    /\ jr_resume' = [jr_resume EXCEPT ![r] = FALSE]
    /\ j_returned' = NoCall
    /\ UNCHANGED <<job_error_count, job_error_message, jr_job, jr_error_count>>

\* start_job returns or raises: its locals are gone
RunEnds(r) ==
    /\ jr_pc' = [jr_pc EXCEPT ![r] = "idle"]
    /\ jr_job' = [jr_job EXCEPT ![r] = 0]
    /\ jr_left' = [jr_left EXCEPT ![r] = 0]
    /\ jr_failed' = [jr_failed EXCEPT ![r] = 0]
    /\ jr_errors' = [jr_errors EXCEPT ![r] = 0]
    /\ jr_error_count' = [jr_error_count EXCEPT ![r] = 0]
    /\ UNCHANGED jr_resume

\* a failure policy that ends the run at the first WorkItem that raises
process_work_item_abort(r, ok) ==
    /\ jr_pc[r] = "processing"
    /\ jr_left[r] > 0
    /\ IF ok
       THEN /\ jr_left' = [jr_left EXCEPT ![r] = jr_left[r] - 1]
            /\ UNCHANGED <<jr_errors, jr_failed, job_failed_items>>
       ELSE /\ jr_failed[r] < MaxFailedItems
            /\ jr_errors' = [jr_errors EXCEPT ![r] = jr_errors[r] + 1]
            /\ jr_failed' = [jr_failed EXCEPT ![r] = jr_failed[r] + 1]
            /\ job_failed_items' = [job_failed_items EXCEPT ![jr_job[r]] = jr_failed[r] + 1]
            /\ jr_left' = [jr_left EXCEPT ![r] = 0]
    /\ j_returned' = NoCall
    /\ UNCHANGED <<job_status, job_error_count, job_error_message,
                   jr_pc, jr_job, jr_resume, jr_error_count>>

\* _process_job_sequential / _process_job_parallel: one WorkItem. It is
\* processed, and _update_job_progress(job, 1, 0) writes the run's counters;
\* or it raises (its task fails or times out), the error is appended to
\* results['errors'] and _update_job_progress(job, 0, 1) writes the counters.
\* The stored status is neither read nor written.
process_work_item(r, ok) ==
    /\ jr_pc[r] = "processing"
    /\ jr_left[r] > 0
    /\ jr_left' = [jr_left EXCEPT ![r] = jr_left[r] - 1]
    /\ IF ok
       THEN /\ job_failed_items' = [job_failed_items EXCEPT ![jr_job[r]] = jr_failed[r]]
            /\ UNCHANGED <<jr_errors, jr_failed>>
       ELSE /\ jr_failed[r] < MaxFailedItems
            /\ jr_errors' = [jr_errors EXCEPT ![r] = jr_errors[r] + 1]
            /\ jr_failed' = [jr_failed EXCEPT ![r] = jr_failed[r] + 1]
            /\ job_failed_items' = [job_failed_items EXCEPT ![jr_job[r]] = jr_failed[r] + 1]
    /\ j_returned' = NoCall
    /\ UNCHANGED <<job_status, job_error_count, job_error_message,
                   jr_pc, jr_job, jr_resume, jr_error_count>>

\* start_job: all work items done, UPDATE ... SET status = COMPLETED
\* WHERE id = job.id, and the results are returned
job_completes(r) ==
    /\ jr_pc[r] = "processing"
    /\ jr_left[r] = 0
    /\ job_status' = [job_status EXCEPT ![jr_job[r]] = "completed"]
    /\ RunEnds(r)
    /\ j_returned' = [op |-> "start_job", job |-> jr_job[r], run |-> r, ret |-> "results"]
    /\ UNCHANGED <<job_failed_items, job_error_count, job_error_message>>

\* start_job: the exception E leaves the processing,
\* UPDATE ... SET status = FAILED, error_message = str(e),
\* error_count = job.error_count + 1 WHERE id = job.id, and E is raised again
job_fails(r) ==
    /\ jr_pc[r] = "processing"
    /\ jr_error_count[r] < MaxJobErrors
    /\ job_status' = [job_status EXCEPT ![jr_job[r]] = "failed"]
    /\ job_error_message' = [job_error_message EXCEPT ![jr_job[r]] = "E"]
    /\ job_error_count' = [job_error_count EXCEPT ![jr_job[r]] = jr_error_count[r] + 1]
    /\ RunEnds(r)
    /\ j_returned' = [op |-> "start_job", job |-> jr_job[r], run |-> r, ret |-> "E"]
    /\ UNCHANGED job_failed_items

\* a pause_job that reports success whatever the status was
pause_job_always_true(job_id) ==
    /\ job_status' = [job_status EXCEPT ![job_id] =
                         IF @ = "running" THEN "paused" ELSE @]
    /\ j_returned' = [op |-> "pause_job", job |-> job_id, run |-> 0, ret |-> "True"]
    /\ UNCHANGED <<job_failed_items, job_error_count, job_error_message,
                   jr_pc, jr_job, jr_resume, jr_left, jr_failed, jr_errors, jr_error_count>>

\* pause_job: UPDATE ... SET status = PAUSED WHERE id = job_id AND
\* status = RUNNING; returns rowcount > 0
pause_job(job_id) ==
    /\ job_status' = [job_status EXCEPT ![job_id] =
                         IF @ = "running" THEN "paused" ELSE @]
    /\ j_returned' = [op |-> "pause_job", job |-> job_id, run |-> 0,
                      ret |-> IF job_status[job_id] = "running" THEN "True" ELSE "False"]
    /\ UNCHANGED <<job_failed_items, job_error_count, job_error_message,
                   jr_pc, jr_job, jr_resume, jr_left, jr_failed, jr_errors, jr_error_count>>

\* cancel_job: UPDATE ... SET status = CANCELLED WHERE id = job_id AND
\* status IN (PENDING, RUNNING, PAUSED); returns rowcount > 0
cancel_job(job_id) ==
    /\ job_status' = [job_status EXCEPT ![job_id] =
                         IF @ \in {"pending", "running", "paused"} THEN "cancelled" ELSE @]
    /\ j_returned' = [op |-> "cancel_job", job |-> job_id, run |-> 0,
                      ret |-> IF job_status[job_id] \in {"pending", "running", "paused"}
                              THEN "True" ELSE "False"]
    /\ UNCHANGED <<job_failed_items, job_error_count, job_error_message,
                   jr_pc, jr_job, jr_resume, jr_left, jr_failed, jr_errors, jr_error_count>>

\* C11: pause_job changes the status to Paused and returns True exactly
\* when the status was Running; cancel_job changes it to Cancelled and
\* returns True exactly when it was Pending, Running or Paused; otherwise the
\* call returns False and the record is unchanged. Each call is decided by
\* its own conditional write, also when the two race on one job, and no
\* other row or column is written.
C11_ConditionalTransitions ==
    [][LET c == j_returned'
           allowed == IF c.op = "pause_job" THEN {"running"}
                      ELSE {"pending", "running", "paused"}
           target == IF c.op = "pause_job" THEN "paused" ELSE "cancelled"
       IN  (c # j_returned /\ c.op \in {"pause_job", "cancel_job"}) =>
              /\ c.ret = (IF job_status[c.job] \in allowed THEN "True" ELSE "False")
              /\ (c.ret = "True") => job_status'[c.job] = target
              /\ (c.ret = "False") => job_status'[c.job] = job_status[c.job]
              /\ \A k \in JobIds \ {c.job} : job_status'[k] = job_status[k]
              /\ UNCHANGED <<job_failed_items, job_error_count, job_error_message>>]_vars

\* pause_job lost the race against cancel_job while the run is in progress
C11_Witness ==
    /\ j_returned = [op |-> "pause_job", job |-> 1, run |-> 0, ret |-> "False"]
    /\ job_status[1] = "cancelled"
    /\ \E r \in JobRuns : jr_pc[r] = "processing"

C13_RunFailureIsRecorded ==
    [][LET c == j_returned'
       IN  (c # j_returned /\ c.op = "start_job" /\ c.ret = "E") =>
              /\ job_status'[c.job] = "failed"
              /\ job_error_message'[c.job] = "E"
              /\ job_error_count'[c.job] = job_error_count[c.job] + 1
              /\ \A k \in JobIds \ {c.job} :
                    /\ job_status'[k] = job_status[k]
                    /\ job_failed_items'[k] = job_failed_items[k]
                    /\ job_error_count'[k] = job_error_count[k]
                    /\ job_error_message'[k] = job_error_message[k]]_vars

\* C10: once a Job's status is Completed or Cancelled it never changes
\* again, whatever the interleaving of start_job, pause_job, cancel_job and
\* a run in progress.
C10_TerminalStatusFinal ==
    [][\A j \in JobIds : (job_status[j] \in {"completed", "cancelled"})
                            => (job_status'[j] = job_status[j])]_vars

\* C30: at most one run of a given Job is active at a time: two start_job
\* invocations for the same Job never both pass the status check and both
\* process its WorkItems.
C30_OneActiveRunPerJob ==
    \A r, q \in JobRuns :
        (r # q /\ jr_pc[r] = "processing" /\ jr_pc[q] = "processing") =>
            jr_job[r] # jr_job[q]

NextJob ==
    \/ \E r \in JobRuns, j \in StartedJobIds, b \in BOOLEAN : start_job_load(r, j, b) /\ UNCHANGED jrest
    \/ \E r \in JobRuns, n \in 0..MaxWorkItems : start_job_commit(r, n) /\ UNCHANGED jrest
    \/ \E r \in JobRuns, ok \in BOOLEAN : process_work_item(r, ok) /\ UNCHANGED jrest
    \/ \E r \in JobRuns : job_completes(r) /\ UNCHANGED jrest
    \/ \E r \in JobRuns : job_fails(r) /\ UNCHANGED jrest
    \/ \E j \in JobIds : pause_job(j) /\ UNCHANGED jrest
    \/ \E j \in JobIds : cancel_job(j) /\ UNCHANGED jrest

\* BatchTaskScheduler.stop: task.cancel() on the task that runs the job.
\* CancelledError is raised at the await the run is suspended in; it is not
\* an Exception, so the handler that marks the job Failed is skipped, the
\* finally clause forgets the job and nothing is written
start_job_cancelled(r) ==
    /\ jr_pc[r] \in {"starting", "processing"}
    /\ j_returned' = [op |-> "start_job", job |-> jr_job[r], run |-> r, ret |-> "CancelledError"]
    /\ RunEnds(r)
    /\ UNCHANGED <<job_status, job_failed_items, job_error_count, job_error_message>>

\* C31: whenever a Job's persisted status is Running, a start_job
\* invocation for that Job is in progress, also after the task that runs
\* the Job has been cancelled.
C31_RunningHasActiveRun ==
    \A j \in JobIds :
        job_status[j] = "running" =>
            \E r \in JobRuns : jr_pc[r] = "processing" /\ jr_job[r] = j

NextJobStop ==
    \/ NextJob
    \/ \E r \in JobRuns : start_job_cancelled(r) /\ UNCHANGED jrest

\* C34: after pause_job has set the status to Paused, the run in progress
\* processes no further WorkItems and does not set the status to
\* Completed: the status stays Paused until start_job is called again.
C34_PausedRunStops ==
    [][\A j \in JobIds :
          job_status[j] = "paused" =>
             /\ job_status'[j] # "completed"
             /\ \A r \in JobRuns :
                   (jr_pc[r] = "processing" /\ jr_job[r] = j) => jr_left'[r] >= jr_left[r]]_vars

(***************************************************************************)
(* BatchProcessor: the work items of a job and its checkpoint. Dates are   *)
(* days after job.start_date; the job is run sequentially, its run ends    *)
(* at any point and the job is started again.                              *)
(***************************************************************************)
instruments == <<"EUR_USD", "GBP_USD", "USD_JPY">>   \* job.instruments
timeframes == <<"H1", "H4">>                         \* job.timeframes
start_date == 0                                      \* job.start_date
ChunkDays == 7                                       \* timedelta(days=7)

\* job.checkpoint_data = None
NoCheckpoint == [last_instrument |-> "None", last_timeframe |-> "None", last_date |-> -1]

Min(a, b) == IF a < b THEN a ELSE b

\* list.index(x), 0-based
IndexOf(l, x) == (CHOOSE p \in 1..Len(l) : l[p] = x /\ \A q \in 1..(p - 1) : l[q] # x) - 1

\* one work item for the whole date range, however long
DateChunks_unsplit(instrument, timeframe, current_date, end_date) ==
    IF current_date < end_date
    THEN <<[instrument |-> instrument, timeframe |-> timeframe,
            start_date |-> current_date, end_date |-> end_date]>>
    ELSE <<>>

\* the while loop of _generate_work_items for one instrument and timeframe
RECURSIVE DateChunks(_, _, _, _)
DateChunks(instrument, timeframe, current_date, end_date) ==
    IF current_date < end_date
    THEN LET chunk_end == Min(current_date + ChunkDays, end_date)
         IN  <<[instrument |-> instrument, timeframe |-> timeframe,
                start_date |-> current_date, end_date |-> chunk_end]>>
             \o DateChunks(instrument, timeframe, chunk_end, end_date)
    ELSE <<>>

\* the two for loops of _generate_work_items; i and t are 1-based positions
RECURSIVE ForEachPair(_, _, _, _, _, _)
ForEachPair(ins, tfs, i, t, from_date, end_date) ==
    IF i > Len(ins) THEN <<>>
    ELSE IF t > Len(tfs) THEN ForEachPair(ins, tfs, i + 1, 1, from_date, end_date)
    ELSE DateChunks(ins[i], tfs[t], from_date, end_date)
         \o ForEachPair(ins, tfs, i, t + 1, from_date, end_date)

\* a resume that looks the instrument up one position too early
generate_work_items_early(checkpoint_data, resume_from_checkpoint, end_date) ==
    IF resume_from_checkpoint /\ checkpoint_data # NoCheckpoint
    THEN LET k == IndexOf(instruments, checkpoint_data.last_instrument)
         IN  ForEachPair(DropFirst(instruments, IF k > 0 THEN k - 1 ELSE 0),
                         DropFirst(timeframes, IndexOf(timeframes, checkpoint_data.last_timeframe)),
                         1, 1, checkpoint_data.last_date, end_date)
    ELSE ForEachPair(instruments, timeframes, 1, 1, start_date, end_date)

\* _generate_work_items
generate_work_items(checkpoint_data, resume_from_checkpoint, end_date) ==
    IF resume_from_checkpoint /\ checkpoint_data # NoCheckpoint
    THEN ForEachPair(DropFirst(instruments, IndexOf(instruments, checkpoint_data.last_instrument)),
                     DropFirst(timeframes, IndexOf(timeframes, checkpoint_data.last_timeframe)),
                     1, 1, checkpoint_data.last_date, end_date)
    ELSE ForEachPair(instruments, timeframes, 1, 1, start_date, end_date)

InitWorkItems ==
    /\ wi_pc = "new"
    /\ wi_end_date = 0
    /\ wi_checkpoint = NoCheckpoint
    /\ wi_items = <<>>
    /\ wi_next = 1
    /\ wi_resumed = FALSE
    /\ wi_original = <<>>
    /\ wi_done = {}

\* create_batch_job: the date range of the job
wi_create_batch_job(end_date) ==
    /\ wi_pc = "new"
    /\ wi_pc' = "created"
    /\ wi_end_date' = end_date
    /\ UNCHANGED <<wi_checkpoint, wi_items, wi_next, wi_resumed, wi_original, wi_done>>

\* start_job and _process_job_sequential up to its loop: a run that does
\* not resume forgets the checkpoint; the work items are generated
wi_start_job(resume_from_checkpoint) ==
    /\ wi_pc \in {"created", "stopped"}
    /\ wi_pc = "created" => ~resume_from_checkpoint
    /\ wi_pc = "stopped" => resume_from_checkpoint
    /\ wi_pc' = "running"
    /\ wi_resumed' = resume_from_checkpoint
    /\ wi_checkpoint' = IF resume_from_checkpoint THEN wi_checkpoint ELSE NoCheckpoint
    /\ wi_items' = generate_work_items(wi_checkpoint', resume_from_checkpoint, wi_end_date)
    /\ wi_next' = 1
    /\ wi_original' = IF resume_from_checkpoint THEN wi_original ELSE wi_items'
    /\ UNCHANGED <<wi_end_date, wi_done>>

\* _process_job_sequential: the next item is processed and _save_checkpoint
\* stores it, or it raises and no checkpoint is saved
wi_process_item(ok) ==
    /\ wi_pc = "running"
    /\ ~wi_resumed
    /\ wi_next <= Len(wi_items)
    /\ wi_next' = wi_next + 1
    /\ IF ok
       THEN /\ wi_checkpoint' = [last_instrument |-> wi_items[wi_next].instrument,
                                 last_timeframe |-> wi_items[wi_next].timeframe,
                                 last_date |-> wi_items[wi_next].end_date]
            /\ wi_done' = wi_done \cup {wi_items[wi_next]}
       ELSE UNCHANGED <<wi_checkpoint, wi_done>>
    /\ UNCHANGED <<wi_pc, wi_end_date, wi_items, wi_resumed, wi_original>>

\* start_job: an exception ends the run, the job is Failed; or the job is
\* paused. Both leave a job that is_resumable() once it has a checkpoint.
wi_run_stops ==
    /\ wi_pc = "running"
    /\ ~wi_resumed
    /\ wi_pc' = "stopped"
    /\ UNCHANGED <<wi_end_date, wi_checkpoint, wi_items, wi_next, wi_resumed,
                   wi_original, wi_done>>

\* C14: resume never skips work: every work item of the job's original
\* decomposition that had not been processed successfully when the
\* checkpoint was saved is covered, day by day, by the work items that a
\* resuming start_job generates.
C14_ResumeNeverSkips ==
    (wi_pc = "running" /\ wi_resumed) =>
        \A k \in 1..Len(wi_original) :
            LET item == wi_original[k]
            IN  item \notin wi_done =>
                   \A day \in item.start_date..(item.end_date - 1) :
                       \E j \in 1..Len(wi_items) :
                           /\ wi_items[j].instrument = item.instrument
                           /\ wi_items[j].timeframe = item.timeframe
                           /\ wi_items[j].start_date <= day
                           /\ day < wi_items[j].end_date

\* C15: when a job is resumed from a checkpoint whose last_instrument is at
\* position k of the instrument list, no regenerated work item is for an
\* instrument at a position before k, and the regenerated list, when it has
\* items, starts with the checkpointed instrument.
C15_ResumeStartsAtCheckpointInstrument ==
    (wi_pc = "running" /\ wi_resumed /\ wi_checkpoint # NoCheckpoint) =>
        LET Pos(x) == CHOOSE p \in 1..Len(instruments) : instruments[p] = x
            k == Pos(wi_checkpoint.last_instrument)
        IN  /\ \A j \in 1..Len(wi_items) : Pos(wi_items[j].instrument) >= k
            /\ wi_items # <<>> => wi_items[1].instrument = wi_checkpoint.last_instrument

\* resumed from the checkpoint GBP_USD / H1: the list starts at GBP_USD
C15_Witness ==
    /\ wi_pc = "running"
    /\ wi_resumed
    /\ wi_checkpoint.last_instrument = "GBP_USD"
    /\ wi_checkpoint.last_timeframe = "H1"
    /\ wi_items # <<>>
    /\ wi_items[1].instrument = "GBP_USD"
    /\ \A j \in 1..Len(wi_items) : wi_items[j].instrument # "EUR_USD"

\* C38: for a Job that is not resumed the generated list goes through the
\* (instrument, timeframe) pairs in list order, instrument-major; the items
\* of one pair are consecutive, each is at most 7 days long, each starts
\* where the one before ended, the first at start_date and the last ending
\* at end_date; a range of at most 7 days gives exactly one item per pair.
C38_ChunksCoverRange ==
    (wi_pc = "running" /\ ~wi_resumed) =>
        LET n == Len(wi_items)
            PairOf(item) == IndexOf(instruments, item.instrument) * Len(timeframes)
                               + IndexOf(timeframes, item.timeframe)
            SamePair(j, k) == PairOf(wi_items[j]) = PairOf(wi_items[k])
        IN  /\ \A j \in 1..n :
                  /\ wi_items[j].instrument \in {instruments[p] : p \in 1..Len(instruments)}
                  /\ wi_items[j].timeframe \in {timeframes[p] : p \in 1..Len(timeframes)}
                  /\ wi_items[j].start_date < wi_items[j].end_date
                  /\ wi_items[j].end_date - wi_items[j].start_date <= 7
                  /\ (j = 1 \/ ~SamePair(j - 1, j)) => wi_items[j].start_date = start_date
                  /\ (j = n \/ ~SamePair(j, j + 1)) => wi_items[j].end_date = wi_end_date
                  /\ (j < n /\ SamePair(j, j + 1)) =>
                        wi_items[j + 1].start_date = wi_items[j].end_date
                  /\ j < n => PairOf(wi_items[j]) <= PairOf(wi_items[j + 1])
            /\ \A q \in 0..(Len(instruments) * Len(timeframes) - 1) :
                  \E j \in 1..n : PairOf(wi_items[j]) = q
            /\ wi_end_date - start_date <= 7 =>
                  /\ n = Len(instruments) * Len(timeframes)
                  /\ \A j \in 1..n : PairOf(wi_items[j]) = j - 1

\* an 8-day range: every pair has a 7-day item followed by a 1-day item
C38_Witness ==
    /\ wi_pc = "running"
    /\ ~wi_resumed
    /\ wi_end_date = 8
    /\ Len(wi_items) = 2 * Len(instruments) * Len(timeframes)
    /\ wi_items[1] = [instrument |-> "EUR_USD", timeframe |-> "H1", start_date |-> 0, end_date |-> 7]
    /\ wi_items[2] = [instrument |-> "EUR_USD", timeframe |-> "H1", start_date |-> 7, end_date |-> 8]
    /\ wi_items[3].timeframe = "H4"

NextWorkItems ==
    \/ \E d \in 1..MaxDays : wi_create_batch_job(d) /\ UNCHANGED wirest
    \/ \E b \in BOOLEAN : wi_start_job(b) /\ UNCHANGED wirest
    \/ \E ok \in BOOLEAN : wi_process_item(ok) /\ UNCHANGED wirest
    \/ wi_run_stops /\ UNCHANGED wirest

(***************************************************************************)
(* The resistance_events table. A detected event is named by its key       *)
(* (instrument, timeframe, event_timestamp). EventProcessor._store_events  *)
(* is called by the work items of batch jobs, each call with a session of  *)
(* its own; SpikeProcessor._store_event is called by the drain loop.       *)
(***************************************************************************)
EventKeys == {"k1", "k2"}

StoreCalls == {1, 2}

\* the lists of at most MaxEventBatch events
EventLists == UNION {[1..n -> EventKeys] : n \in 1..MaxEventBatch}

Count(l, x) == Cardinality({i \in 1..Len(l) : l[i] = x})

InitEvents ==
    /\ ev_rows = [k \in EventKeys |-> 0]
    /\ ev_pc = [c \in StoreCalls |-> "idle"]
    /\ ev_todo = [c \in StoreCalls |-> <<>>]
    /\ ev_pending = [c \in StoreCalls |-> <<>>]
    /\ ev_submitted = 0

\* _store_events: entry, a new session
store_events(c, events) ==
    /\ ev_pc[c] = "idle"
    /\ \A d \in StoreCalls : d < c => ev_pc[d] # "idle"
    /\ ev_submitted + Len(events) <= MaxEvents
    /\ ev_submitted' = ev_submitted + Len(events)
    /\ ev_pc' = [ev_pc EXCEPT ![c] = "storing"]
    /\ ev_todo' = [ev_todo EXCEPT ![c] = events]
    /\ ev_pending' = [ev_pending EXCEPT ![c] = <<>>]
    /\ UNCHANGED ev_rows

\* _check_duplicate_event: the SELECT of this session sees the committed
\* records and what the session itself has added
check_duplicate_event(c, key) == ev_rows[key] + Count(ev_pending[c], key) > 0

\* _store_events: one turn of the loop: a duplicate is skipped, (a SELECT
\* that finds several records raises and the event is skipped too),
\* otherwise the event is added to the session
store_events_next(c) ==
    /\ ev_pc[c] = "storing"
    /\ ev_todo[c] # <<>>
    /\ ev_todo' = [ev_todo EXCEPT ![c] = Tail(@)]
    /\ ev_pending' = [ev_pending EXCEPT ![c] =
                         IF check_duplicate_event(c, Head(ev_todo[c])) THEN @
                         ELSE Append(@, Head(ev_todo[c]))]
    /\ UNCHANGED <<ev_rows, ev_pc, ev_submitted>>

\* _store_events: session.commit()
store_events_commit(c) ==
    /\ ev_pc[c] = "storing"
    /\ ev_todo[c] = <<>>
    /\ ev_rows' = [k \in EventKeys |-> ev_rows[k] + Count(ev_pending[c], k)]
    /\ ev_pc' = [ev_pc EXCEPT ![c] = "idle"]
    /\ ev_pending' = [ev_pending EXCEPT ![c] = <<>>]
    /\ UNCHANGED <<ev_todo, ev_submitted>>

\* _store_events: the commit raises, session.rollback(), nothing is stored
store_events_rollback(c) ==
    /\ ev_pc[c] = "storing"
    /\ ev_todo[c] = <<>>
    /\ ev_pc' = [ev_pc EXCEPT ![c] = "idle"]
    /\ ev_pending' = [ev_pending EXCEPT ![c] = <<>>]
    /\ UNCHANGED <<ev_rows, ev_todo, ev_submitted>>

\* SpikeProcessor._store_event: session.add(event), commit
spike_store_event(key) ==
    /\ ev_submitted < MaxEvents
    /\ ev_submitted' = ev_submitted + 1
    /\ ev_rows' = [ev_rows EXCEPT ![key] = @ + 1]
    /\ UNCHANGED <<ev_pc, ev_todo, ev_pending>>

\* C16: after any sequence of event submissions, within one batch, across
\* work items that run concurrently, or through the live spike path, at
\* most one record is persisted for any (instrument, timeframe,
\* event_timestamp).
C16_OneRecordPerKey == \A k \in EventKeys : ev_rows[k] <= 1

NextEvents ==
    \/ \E c \in StoreCalls, l \in EventLists : store_events(c, l) /\ UNCHANGED evrest
    \/ \E c \in StoreCalls : store_events_next(c) /\ UNCHANGED evrest
    \/ \E c \in StoreCalls : store_events_commit(c) /\ UNCHANGED evrest
    \/ \E c \in StoreCalls : store_events_rollback(c) /\ UNCHANGED evrest
    \/ \E k \in EventKeys : spike_store_event(k) /\ UNCHANGED evrest

(***************************************************************************)
(* SpikeProcessor: one polling task per (instrument, timeframe), the drain *)
(* task and the metrics task. A task is "none" when it does not exist.     *)
(***************************************************************************)
StreamKeys == {"EUR_USD_H1", "EUR_USD_H4"}

InitSpike ==
    /\ sp_running = FALSE
    /\ sp_stream = [k \in StreamKeys |-> "none"]
    /\ sp_drain = "none"
    /\ sp_metrics = "none"
    /\ sp_fetches = 0
    /\ sp_fail_streak = 0
    /\ sp_tasks = 0
    /\ sp_active_streams = {}
    /\ sp_stop_pc = "idle"

\* a start() that does not look at self._running
spike_start_again(spike_detection_enabled) ==
    /\ sp_stop_pc = "idle"
    /\ IF ~spike_detection_enabled
       THEN UNCHANGED <<sp_running, sp_stream, sp_drain, sp_metrics, sp_tasks>>
       ELSE /\ sp_running' = TRUE
            /\ sp_stream' = [k \in StreamKeys |-> "created"]
            /\ sp_drain' = "loop"
            /\ sp_metrics' = "sleep"
            /\ sp_tasks' = sp_tasks + Cardinality(StreamKeys) + 2
    /\ UNCHANGED <<sp_fetches, sp_fail_streak, sp_active_streams, sp_stop_pc>>

\* SpikeProcessor.start, called when no stop() of the same caller is pending:
\* one _process_stream task per (instrument, timeframe), the _process_buffer
\* task and the _report_metrics task are created and appended to _tasks
spike_start(spike_detection_enabled) ==
    /\ sp_stop_pc = "idle"
    /\ IF sp_running \/ ~spike_detection_enabled
       THEN UNCHANGED <<sp_running, sp_stream, sp_drain, sp_metrics, sp_tasks>>
       ELSE /\ sp_running' = TRUE
            /\ sp_stream' = [k \in StreamKeys |-> "created"]
            /\ sp_drain' = "loop"
            /\ sp_metrics' = "sleep"
            /\ sp_tasks' = sp_tasks + Cardinality(StreamKeys) + 2
    /\ UNCHANGED <<sp_fetches, sp_fail_streak, sp_active_streams, sp_stop_pc>>

\* _process_stream: the task runs for the first time: the stream key is
\* added to active_streams and the loop is entered
process_stream_begins(k) ==
    /\ sp_stream[k] = "created"
    /\ sp_stream' = [sp_stream EXCEPT ![k] = "loop"]
    /\ sp_active_streams' = sp_active_streams \cup {k}
    /\ UNCHANGED <<sp_running, sp_drain, sp_metrics, sp_fetches, sp_fail_streak,
                   sp_tasks, sp_stop_pc>>

\* SpikeProcessor.stop up to its await: _running is cleared and every task
\* of _tasks is cancelled; the CancelledError reaches each task at the await
\* it is at
spike_stop ==
    /\ sp_stop_pc = "idle"
    /\ IF ~sp_running
       THEN UNCHANGED <<sp_running, sp_stream, sp_drain, sp_metrics, sp_stop_pc>>
       ELSE /\ sp_running' = FALSE
            /\ sp_stream' = [k \in StreamKeys |-> "cancelled"]
            /\ sp_drain' = "cancelled"
            /\ sp_metrics' = "cancelled"
            /\ sp_stop_pc' = "waiting"
    /\ UNCHANGED <<sp_fetches, sp_fail_streak, sp_tasks, sp_active_streams>>

\* _process_stream: CancelledError is no Exception: it leaves the loop
\* through the finally, which discards the stream key; the task ends
process_stream_cancelled(k) ==
    /\ sp_stream[k] = "cancelled"
    /\ sp_stream' = [sp_stream EXCEPT ![k] = "none"]
    /\ sp_active_streams' = sp_active_streams \ {k}
    /\ UNCHANGED <<sp_running, sp_drain, sp_metrics, sp_fetches, sp_fail_streak,
                   sp_tasks, sp_stop_pc>>

\* _process_buffer: CancelledError ends the task
process_buffer_cancelled ==
    /\ sp_drain = "cancelled"
    /\ sp_drain' = "none"
    /\ UNCHANGED <<sp_running, sp_stream, sp_metrics, sp_fetches, sp_fail_streak,
                   sp_tasks, sp_active_streams, sp_stop_pc>>

\* _report_metrics: CancelledError ends the task
report_metrics_cancelled ==
    /\ sp_metrics = "cancelled"
    /\ sp_metrics' = "none"
    /\ UNCHANGED <<sp_running, sp_stream, sp_drain, sp_fetches, sp_fail_streak,
                   sp_tasks, sp_active_streams, sp_stop_pc>>

\* SpikeProcessor.stop: the gather over _tasks is done; _tasks.clear()
spike_stop_returns ==
    /\ sp_stop_pc = "waiting"
    /\ \A k \in StreamKeys : sp_stream[k] = "none"
    /\ sp_drain = "none"
    /\ sp_metrics = "none"
    /\ sp_tasks' = 0
    /\ sp_stop_pc' = "idle"
    /\ UNCHANGED <<sp_running, sp_stream, sp_drain, sp_metrics, sp_fetches,
                   sp_fail_streak, sp_active_streams>>

\* a polling loop without the try / except inside the while
process_stream_fetch_unguarded(k, outcome) ==
    /\ sp_stream[k] = "loop"
    /\ sp_running
    /\ sp_fetches < MaxFetches
    /\ sp_fetches' = sp_fetches + 1
    /\ sp_fail_streak' = IF outcome = "raises" THEN sp_fail_streak + 1 ELSE 0
    /\ sp_stream' = [sp_stream EXCEPT ![k] =
                        CASE outcome = "raises" -> "none"
                          [] outcome = "candle" -> "candle"
                          [] OTHER -> "sleep"]
    /\ UNCHANGED <<sp_running, sp_drain, sp_metrics>>

\* _process_stream: while self._running: candle = await
\* self._fetch_latest_candle(...); the call is made directly, whatever the
\* state of self.circuit_breaker
process_stream_fetch(k, outcome) ==
    /\ sp_stream[k] = "loop"
    /\ sp_running
    /\ sp_fetches < MaxFetches
    /\ sp_fetches' = sp_fetches + 1
    /\ sp_fail_streak' = IF outcome = "raises" THEN sp_fail_streak + 1 ELSE 0
    /\ sp_stream' = [sp_stream EXCEPT ![k] =
                        CASE outcome = "raises" -> "error_sleep"
                          [] outcome = "candle" -> "candle"
                          [] OTHER -> "sleep"]
    /\ UNCHANGED <<sp_running, sp_drain, sp_metrics>>

\* _process_stream: _process_candle (detection, buffer.add, notification)
\* returns, or raises and the except of the iteration takes over
process_stream_candle(k, ok) ==
    /\ sp_stream[k] = "candle"
    /\ sp_stream' = [sp_stream EXCEPT ![k] = IF ok THEN "sleep" ELSE "error_sleep"]
    /\ UNCHANGED <<sp_running, sp_drain, sp_metrics, sp_fetches, sp_fail_streak>>

\* _process_stream: the poll interval or the 5 s pause is over
process_stream_wakes(k) ==
    /\ sp_stream[k] \in {"sleep", "error_sleep"}
    /\ sp_stream' = [sp_stream EXCEPT ![k] = "loop"]
    /\ UNCHANGED <<sp_running, sp_drain, sp_metrics, sp_fetches, sp_fail_streak>>

\* _process_buffer: one turn: a batch is taken and stored and the loop
\* sleeps 1 s, or the turn raises and the loop sleeps 5 s
process_buffer_turn(ok) ==
    /\ sp_drain = "loop"
    /\ sp_running
    /\ sp_drain' = IF ok THEN "sleep" ELSE "error_sleep"
    /\ UNCHANGED <<sp_running, sp_stream, sp_metrics, sp_fetches, sp_fail_streak>>

\* _process_buffer: the sleep is over
process_buffer_wakes ==
    /\ sp_drain \in {"sleep", "error_sleep"}
    /\ sp_drain' = "loop"
    /\ UNCHANGED <<sp_running, sp_stream, sp_metrics, sp_fetches, sp_fail_streak>>

\* _report_metrics: the 30 s are over, the snapshot is logged (an exception
\* is caught), the next turn sleeps
report_metrics_turn ==
    /\ sp_metrics = "sleep"
    /\ sp_running
    /\ UNCHANGED spvars

\* C24: while the processor is running and no stop() is pending there is
\* one polling task per (instrument, timeframe), one drain task and one
\* metrics task, and _tasks holds exactly these; whenever it is not running
\* and no stop() is pending (no start() has succeeded, or stop() has
\* returned) _tasks is empty, no task is alive and active_streams is empty.
C24_StartStopLifecycle ==
    /\ (sp_running /\ sp_stop_pc = "idle") =>
          /\ sp_tasks = Cardinality(StreamKeys) + 2
          /\ \A k \in StreamKeys : sp_stream[k] \notin {"none", "cancelled"}
          /\ sp_drain \notin {"none", "cancelled"}
          /\ sp_metrics \notin {"none", "cancelled"}
    /\ (~sp_running /\ sp_stop_pc = "idle") =>
          /\ sp_tasks = 0
          /\ \A k \in StreamKeys : sp_stream[k] = "none"
          /\ sp_drain = "none"
          /\ sp_metrics = "none"
          /\ sp_active_streams = {}
    /\ sp_stop_pc = "waiting" => ~sp_running

\* the processor was started, polled, was stopped and was started again:
\* fetches were made, and no polling task of the present run has run yet
C24_Witness ==
    /\ sp_running
    /\ sp_stop_pc = "idle"
    /\ sp_fetches >= 2
    /\ \A k \in StreamKeys : sp_stream[k] = "created"
    /\ sp_active_streams = {}
    /\ sp_tasks = Cardinality(StreamKeys) + 2

NextSpike ==
    \/ \E f \in BOOLEAN : spike_start(f) /\ UNCHANGED slrest
    \/ spike_stop /\ UNCHANGED slrest
    \/ spike_stop_returns /\ UNCHANGED slrest
    \/ \E k \in StreamKeys : process_stream_begins(k) /\ UNCHANGED slrest
    \/ \E k \in StreamKeys : process_stream_cancelled(k) /\ UNCHANGED slrest
    \/ process_buffer_cancelled /\ UNCHANGED slrest
    \/ report_metrics_cancelled /\ UNCHANGED slrest
    \/ \E k \in StreamKeys, o \in {"none", "candle", "raises"} :
          process_stream_fetch(k, o) /\ UNCHANGED sprest
    \/ \E k \in StreamKeys, ok \in BOOLEAN : process_stream_candle(k, ok) /\ UNCHANGED sprest
    \/ \E k \in StreamKeys : process_stream_wakes(k) /\ UNCHANGED sprest
    \/ \E ok \in BOOLEAN : process_buffer_turn(ok) /\ UNCHANGED sprest
    \/ process_buffer_wakes /\ UNCHANGED sprest
    \/ report_metrics_turn /\ UNCHANGED sprest

\* C17: an exception raised in one iteration of a stream's polling loop
\* (by the fetch or by the processing of the candle) is caught inside the
\* iteration: the loop is paused, not ended, so while the processor is
\* running every polling loop, the drain loop and the metrics loop exist;
\* and the step leaves the other pairs' loops, the drain loop and the
\* metrics loop where they were.
C17_IterationErrorStaysInLoop ==
    /\ [](sp_running => /\ \A k \in StreamKeys : sp_stream[k] # "none"
                        /\ sp_drain # "none"
                        /\ sp_metrics # "none")
    /\ [][\A k \in StreamKeys :
            (sp_stream[k] \in {"loop", "candle"} /\ sp_stream'[k] = "error_sleep")
                => /\ sp_running' /\ sp_running
                   /\ \A o \in StreamKeys \ {k} : sp_stream'[o] = sp_stream[o]
                   /\ sp_drain' = sp_drain
                   /\ sp_metrics' = sp_metrics]_vars

\* a polling loop whose fetch raised is polling again while the other
\* pair's loop went on in between
C17_Witness ==
    /\ sp_running
    /\ sp_fail_streak = 1
    /\ sp_fetches = 3
    /\ \E k \in StreamKeys : sp_stream[k] = "error_sleep"
    /\ \E k \in StreamKeys : sp_stream[k] = "candle"

\* C18: each polling iteration fetches through the processor's
\* CircuitBreaker: once failure_threshold fetches in a row have failed the
\* breaker is open, and no fetch is invoked while it is open.
C18_FetchThroughBreaker ==
    /\ [](sp_fail_streak >= failure_threshold => cb_state = "open")
    /\ [][(sp_fetches' # sp_fetches) => (cb_state # "open")]_vars

(***************************************************************************)
(* BatchTaskScheduler: the scheduled-jobs loop, the pending-jobs loop, the *)
(* tasks they create and the recurrence handler. A turn of a loop has no   *)
(* suspension point between its query and its launches, so it is one step. *)
(***************************************************************************)
SchedJobIds == {1, 2, 3}
Priorities == {1, 2}
max_concurrent_batch_jobs == 2
NoSchedule == 0
NoRecurrence == [new_job |-> 0, next_run |-> 0]
NoPattern == "NULL"
Patterns == {"hourly", "daily", "weekly", "monthly"}

\* _schedule_next_recurrence: the timedelta of a pattern, in hours, the
\* unit of the scheduler's clock; 0 stands for the patterns it does not know
Period(pattern) ==
    CASE pattern = "daily" -> 24
      [] pattern = "weekly" -> 168
      [] pattern = "hourly" -> 1
      [] OTHER -> 0

InitScheduler ==
    /\ ts_running = FALSE
    /\ ts_now = 1
    /\ ts_status = [j \in SchedJobIds |-> "absent"]
    /\ ts_scheduled_at = [j \in SchedJobIds |-> NoSchedule]
    /\ ts_recurring = [j \in SchedJobIds |-> FALSE]
    /\ ts_pattern = [j \in SchedJobIds |-> NoPattern]
    /\ ts_priority = [j \in SchedJobIds |-> 1]
    /\ ts_task = [j \in SchedJobIds |-> "none"]
    /\ ts_recurrence = [j \in SchedJobIds |-> NoRecurrence]

\* the id the next created row gets
NewJobId(j) == ts_status[j] = "absent" /\ \A i \in SchedJobIds : i < j => ts_status[i] # "absent"

\* tasks of self.scheduled_tasks that are not done
running_count(task) == Cardinality({j \in SchedJobIds : task[j] \in {"created", "running", "recurrence"}})

\* BatchTaskScheduler.start
scheduler_start ==
    /\ ts_running' = TRUE
    /\ UNCHANGED <<ts_now, ts_status, ts_scheduled_at, ts_recurring, ts_pattern, ts_priority,
                   ts_task, ts_recurrence>>

\* BatchTaskScheduler.stop: every task of scheduled_tasks is cancelled where
\* it is and the dictionary is cleared; the rows stay as they are
scheduler_stop ==
    /\ ts_running' = FALSE
    /\ ts_task' = [j \in SchedJobIds |-> "none"]
    /\ ts_recurrence' = [j \in SchedJobIds |-> NoRecurrence]
    /\ UNCHANGED <<ts_now, ts_status, ts_scheduled_at, ts_recurring, ts_pattern, ts_priority>>

\* time passes
clock_tick ==
    /\ ts_now < MaxSchedTime
    /\ ts_now' = ts_now + 1
    /\ UNCHANGED <<ts_running, ts_status, ts_scheduled_at, ts_recurring, ts_pattern, ts_priority,
                   ts_task, ts_recurrence>>

\* a client creates a Pending job: BatchProcessor.create_batch_job, and for a
\* scheduled or recurring one the UPDATE that follows it, as in
\* schedule_daily_historical_backfill; the two writes are taken as one, so
\* the scheduler sees a client's job only with its schedule
create_scheduled_job(j, scheduled_at, is_recurring, recurrence_pattern, priority) ==
    /\ NewJobId(j)
    /\ ts_status' = [ts_status EXCEPT ![j] = "pending"]
    /\ ts_scheduled_at' = [ts_scheduled_at EXCEPT ![j] = scheduled_at]
    /\ ts_recurring' = [ts_recurring EXCEPT ![j] = is_recurring]
    /\ ts_pattern' = [ts_pattern EXCEPT ![j] = recurrence_pattern]
    /\ ts_priority' = [ts_priority EXCEPT ![j] = priority]
    /\ UNCHANGED <<ts_running, ts_now, ts_task, ts_recurrence>>

\* one turn of _monitor_scheduled_jobs: every Pending job whose scheduled_at
\* has come and that has no entry in scheduled_tasks gets a task
monitor_scheduled_jobs ==
    /\ ts_running
    /\ LET due == {j \in SchedJobIds : /\ ts_status[j] = "pending"
                                       /\ ts_scheduled_at[j] # NoSchedule
                                       /\ ts_scheduled_at[j] <= ts_now
                                       /\ ts_task[j] = "none"}
       IN /\ ts_task' = [j \in SchedJobIds |-> IF j \in due THEN "created" ELSE ts_task[j]]
    /\ UNCHANGED <<ts_running, ts_now, ts_status, ts_scheduled_at, ts_recurring, ts_pattern,
                   ts_priority, ts_recurrence>>

\* list_jobs orders by created_at descending and jobs.sort(priority) is stable
SortedBefore(a, b) ==
    \/ ts_priority[a] < ts_priority[b]
    \/ ts_priority[a] = ts_priority[b] /\ a > b

\* one turn of _execute_pending_jobs: in priority order, every Pending job
\* without an entry and without a future schedule gets a task as long as
\* fewer than max_concurrent_batch_jobs tasks are not done; then the entries
\* of done tasks are deleted
execute_pending_jobs ==
    /\ ts_running
    /\ LET ready == {j \in SchedJobIds : /\ ts_status[j] = "pending"
                                         /\ ts_task[j] = "none"
                                         /\ ~(/\ ts_scheduled_at[j] # NoSchedule
                                              /\ ts_scheduled_at[j] > ts_now)}
           room == max_concurrent_batch_jobs - running_count(ts_task)
           started == {j \in ready :
                          Cardinality({i \in ready : SortedBefore(i, j)}) < room}
       IN /\ ts_task' = [j \in SchedJobIds |->
                            CASE j \in started -> "created"
                              [] ts_task[j] = "done" -> "none"
                              [] OTHER -> ts_task[j]]
    /\ UNCHANGED <<ts_running, ts_now, ts_status, ts_scheduled_at, ts_recurring, ts_pattern,
                   ts_priority, ts_recurrence>>

\* _run_batch_job: get_job_status, then start_job passes its status check
\* and writes Running, or raises ValueError, which _run_batch_job logs
run_batch_job_starts(j) ==
    /\ ts_task[j] = "created"
    /\ IF ts_status[j] = "pending"
       THEN /\ ts_status' = [ts_status EXCEPT ![j] = "running"]
            /\ ts_task' = [ts_task EXCEPT ![j] = "running"]
       ELSE /\ ts_task' = [ts_task EXCEPT ![j] = "done"]
            /\ UNCHANGED ts_status
    /\ UNCHANGED <<ts_running, ts_now, ts_scheduled_at, ts_recurring, ts_pattern, ts_priority,
                   ts_recurrence>>

\* a handler that takes the completion time itself as next_run
run_batch_job_ends_no_period(j, ok) ==
    /\ ts_task[j] = "running"
    /\ ts_status[j] = "running"
    /\ IF ~ok
       THEN /\ ts_status' = [ts_status EXCEPT ![j] = "failed"]
            /\ ts_task' = [ts_task EXCEPT ![j] = "done"]
            /\ UNCHANGED <<ts_scheduled_at, ts_recurring, ts_pattern, ts_priority, ts_recurrence>>
       ELSE IF ts_recurring[j] /\ ts_pattern[j] # NoPattern /\ Period(ts_pattern[j]) # 0
       THEN /\ \E n \in SchedJobIds : NewJobId(n)
            /\ LET n == CHOOSE n \in SchedJobIds : NewJobId(n)
               IN /\ ts_status' = [ts_status EXCEPT ![j] = "completed", ![n] = "pending"]
                  /\ ts_scheduled_at' = [ts_scheduled_at EXCEPT ![n] = NoSchedule]
                  /\ ts_recurring' = [ts_recurring EXCEPT ![n] = FALSE]
                  /\ ts_pattern' = [ts_pattern EXCEPT ![n] = NoPattern]
                  /\ ts_priority' = [ts_priority EXCEPT ![n] = ts_priority[j]]
                  /\ ts_recurrence' = [ts_recurrence EXCEPT ![j] =
                                          [new_job |-> n, next_run |-> ts_now]]
                  /\ ts_task' = [ts_task EXCEPT ![j] = "recurrence"]
       ELSE /\ ts_status' = [ts_status EXCEPT ![j] = "completed"]
            /\ ts_task' = [ts_task EXCEPT ![j] = "done"]
            /\ UNCHANGED <<ts_scheduled_at, ts_recurring, ts_pattern, ts_priority, ts_recurrence>>
    /\ UNCHANGED <<ts_running, ts_now>>

\* _run_batch_job: start_job raises (the row is Failed) and the task ends;
\* or start_job returns (the row is Completed) and, for a job that was
\* loaded with is_recurring and a recurrence_pattern, _schedule_next_recurrence
\* computes next_run from the pattern (an unknown pattern: it returns) and
\* create_batch_job commits the new Pending row, a copy of the job's
\* configuration that has no scheduled_at yet. A recurring run completes
\* only while the model has an id left for the new row.
run_batch_job_ends(j, ok) ==
    /\ ts_task[j] = "running"
    /\ ts_status[j] = "running"
    /\ IF ~ok
       THEN /\ ts_status' = [ts_status EXCEPT ![j] = "failed"]
            /\ ts_task' = [ts_task EXCEPT ![j] = "done"]
            /\ UNCHANGED <<ts_scheduled_at, ts_recurring, ts_pattern, ts_priority, ts_recurrence>>
       ELSE IF ts_recurring[j] /\ ts_pattern[j] # NoPattern /\ Period(ts_pattern[j]) # 0
       THEN /\ \E n \in SchedJobIds : NewJobId(n)
            /\ LET n == CHOOSE n \in SchedJobIds : NewJobId(n)
               IN /\ ts_status' = [ts_status EXCEPT ![j] = "completed", ![n] = "pending"]
                  /\ ts_scheduled_at' = [ts_scheduled_at EXCEPT ![n] = NoSchedule]
                  /\ ts_recurring' = [ts_recurring EXCEPT ![n] = FALSE]
                  /\ ts_pattern' = [ts_pattern EXCEPT ![n] = NoPattern]
                  /\ ts_priority' = [ts_priority EXCEPT ![n] = ts_priority[j]]
                  /\ ts_recurrence' = [ts_recurrence EXCEPT ![j] =
                                          [new_job |-> n,
                                           next_run |-> ts_now + Period(ts_pattern[j])]]
                  /\ ts_task' = [ts_task EXCEPT ![j] = "recurrence"]
       ELSE /\ ts_status' = [ts_status EXCEPT ![j] = "completed"]
            /\ ts_task' = [ts_task EXCEPT ![j] = "done"]
            /\ UNCHANGED <<ts_scheduled_at, ts_recurring, ts_pattern, ts_priority, ts_recurrence>>
    /\ UNCHANGED <<ts_running, ts_now>>

\* _schedule_next_recurrence: the UPDATE of the new row commits
\* (scheduled_at = next_run, is_recurring = True, the job's
\* recurrence_pattern) and the task ends
schedule_next_recurrence(j) ==
    /\ ts_task[j] = "recurrence"
    /\ LET n == ts_recurrence[j].new_job
       IN /\ ts_scheduled_at' = [ts_scheduled_at EXCEPT ![n] = ts_recurrence[j].next_run]
          /\ ts_recurring' = [ts_recurring EXCEPT ![n] = TRUE]
          /\ ts_pattern' = [ts_pattern EXCEPT ![n] = ts_pattern[j]]
    /\ ts_recurrence' = [ts_recurrence EXCEPT ![j] = NoRecurrence]
    /\ ts_task' = [ts_task EXCEPT ![j] = "done"]
    /\ UNCHANGED <<ts_running, ts_now, ts_status, ts_priority>>

\* C19: the scheduler never has more than max_concurrent_batch_jobs jobs
\* running that it launched, whichever of its two loops launched them.
C19_AtMostMaxConcurrentJobs ==
    Cardinality({j \in SchedJobIds : ts_task[j] = "running" /\ ts_status[j] = "running"})
        <= max_concurrent_batch_jobs

\* C20: no job is launched before its scheduled_at: when a loop creates the
\* task of a job, the job's scheduled_at, if it has one, has come, and the
\* job is not the new job of a recurrence whose next_run is still ahead.
C20_NeverLaunchedBeforeSchedule ==
    [][\A j \in SchedJobIds :
         (ts_task[j] = "none" /\ ts_task'[j] = "created")
            => /\ ts_scheduled_at[j] = NoSchedule \/ ts_scheduled_at[j] <= ts_now
               /\ \A o \in SchedJobIds :
                     ts_recurrence[o].new_job = j => ts_recurrence[o].next_run <= ts_now]_vars

NextScheduler ==
    \/ scheduler_start /\ UNCHANGED tsrest
    \/ scheduler_stop /\ UNCHANGED tsrest
    \/ clock_tick /\ UNCHANGED tsrest
    \/ \E j \in SchedJobIds, s \in {NoSchedule} \cup (1..MaxSchedTime),
          r \in {<<FALSE, NoPattern>>, <<TRUE, "hourly">>}, p \in Priorities :
          create_scheduled_job(j, s, r[1], r[2], p) /\ UNCHANGED tsrest
    \/ monitor_scheduled_jobs /\ UNCHANGED tsrest
    \/ execute_pending_jobs /\ UNCHANGED tsrest
    \/ \E j \in SchedJobIds : run_batch_job_starts(j) /\ UNCHANGED tsrest
    \/ \E j \in SchedJobIds, ok \in BOOLEAN : run_batch_job_ends(j, ok) /\ UNCHANGED tsrest
    \/ \E j \in SchedJobIds : schedule_next_recurrence(j) /\ UNCHANGED tsrest

ClientJobIds == {1, 2}

NextRecurrence ==
    \/ scheduler_start /\ UNCHANGED tsrest
    \/ clock_tick /\ UNCHANGED tsrest
    \/ \E j \in ClientJobIds, r \in BOOLEAN, pat \in Patterns \cup {NoPattern}, p \in Priorities :
          create_scheduled_job(j, NoSchedule, r, pat, p) /\ UNCHANGED tsrest
    \/ monitor_scheduled_jobs /\ UNCHANGED tsrest
    \/ execute_pending_jobs /\ UNCHANGED tsrest
    \/ \E j \in SchedJobIds : run_batch_job_starts(j) /\ UNCHANGED tsrest
    \/ \E j \in SchedJobIds, ok \in BOOLEAN : run_batch_job_ends(j, ok) /\ UNCHANGED tsrest
    \/ \E j \in SchedJobIds : schedule_next_recurrence(j) /\ UNCHANGED tsrest

(***************************************************************************)
(* retry_failed_jobs (app/tasks/batch_tasks.py) over the batch_jobs rows.  *)
(* The rows are run by the scheduler, which starts Pending rows only; one  *)
(* invocation of retry_failed_jobs is followed at a time.                  *)
(***************************************************************************)
RetryJobIds == {1, 2}

InitRetryJobs ==
    /\ rf_status = [j \in RetryJobIds |-> "pending"]
    /\ rf_retry_count = [j \in RetryJobIds |-> 0]
    /\ rf_pc = "idle"
    /\ rf_failed_jobs = <<>>
    /\ rf_retried_count = 0
    /\ rf_skipped = {}

\* BatchJob.can_retry, of a listed object
can_retry_at_limit(job) == job.retry_count <= max_retries

can_retry(job) == job.retry_count < max_retries

\* list_jobs(status=FAILED): the Failed rows, newest first
RECURSIVE ListFailed(_)
ListFailed(n) ==
    IF n = 0 THEN <<>>
    ELSE IF n \in RetryJobIds /\ rf_status[n] = "failed"
         THEN <<[id |-> n, retry_count |-> rf_retry_count[n]]>> \o ListFailed(n - 1)
         ELSE ListFailed(n - 1)

\* retry_failed_jobs: entry, the Failed jobs are listed
retry_failed_jobs ==
    /\ rf_pc = "idle"
    /\ rf_pc' = "looping"
    /\ rf_failed_jobs' = ListFailed(Cardinality(RetryJobIds))
    /\ rf_retried_count' = 0
    /\ rf_skipped' = {}
    /\ UNCHANGED <<rf_status, rf_retry_count>>

\* retry_failed_jobs: one turn of the loop. A job that can be retried is
\* updated by id: status Pending, retry_count one more than the listed
\* object's; an UPDATE that raises is logged and the loop goes on.
retry_failed_jobs_next(raises) ==
    /\ rf_pc = "looping"
    /\ rf_failed_jobs # <<>>
    /\ LET job == Head(rf_failed_jobs)
       IN /\ rf_failed_jobs' = Tail(rf_failed_jobs)
          /\ IF can_retry(job)
             THEN /\ rf_skipped' = rf_skipped
                  /\ IF raises
                     THEN UNCHANGED <<rf_status, rf_retry_count, rf_retried_count>>
                     ELSE /\ rf_status' = [rf_status EXCEPT ![job.id] = "pending"]
                          /\ rf_retry_count' = [rf_retry_count EXCEPT ![job.id] = job.retry_count + 1]
                          /\ rf_retried_count' = rf_retried_count + 1
             ELSE /\ ~raises
                  /\ rf_skipped' = rf_skipped \cup {job.id}
                  /\ UNCHANGED <<rf_status, rf_retry_count, rf_retried_count>>
    /\ UNCHANGED rf_pc

\* retry_failed_jobs: return retried_count
retry_failed_jobs_returns ==
    /\ rf_pc = "looping"
    /\ rf_failed_jobs = <<>>
    /\ rf_pc' = "idle"
    /\ UNCHANGED <<rf_status, rf_retry_count, rf_failed_jobs, rf_retried_count, rf_skipped>>

\* _execute_pending_jobs, _run_batch_job, start_job: a Pending row is started
retried_job_starts(j) ==
    /\ rf_status[j] = "pending"
    /\ rf_status' = [rf_status EXCEPT ![j] = "running"]
    /\ UNCHANGED <<rf_retry_count, rf_pc, rf_failed_jobs, rf_retried_count, rf_skipped>>

\* start_job: the run completes, or it raises and the row is marked Failed
retried_job_ends(j, ok) ==
    /\ rf_status[j] = "running"
    /\ rf_status' = [rf_status EXCEPT ![j] = IF ok THEN "completed" ELSE "failed"]
    /\ UNCHANGED <<rf_retry_count, rf_pc, rf_failed_jobs, rf_retried_count, rf_skipped>>

NextRetryJobs ==
    \/ retry_failed_jobs /\ UNCHANGED rfrest
    \/ \E raises \in BOOLEAN : retry_failed_jobs_next(raises) /\ UNCHANGED rfrest
    \/ retry_failed_jobs_returns /\ UNCHANGED rfrest
    \/ \E j \in RetryJobIds : retried_job_starts(j) /\ UNCHANGED rfrest
    \/ \E j \in RetryJobIds, ok \in BOOLEAN : retried_job_ends(j, ok) /\ UNCHANGED rfrest

(***************************************************************************)
(* BatchJob.update_progress (app/models/batch_job.py) and the reset of the *)
(* progress fields by start_job. progress_percentage is a Float: it is     *)
(* kept as the quotient num / den that the code computes, and two          *)
(* quotients are compared by cross-multiplication.                         *)
(***************************************************************************)
Zero == [num |-> 0, den |-> 1]     \* 0.0

\* (a / b) * 100
TimesHundred(a, b) == [num |-> a * 100, den |-> b]

SameQuotient(q, r) == q.num * r.den = r.num * q.den

InitProgress ==
    /\ up_total_items = 0
    /\ up_processed_items = 0
    /\ up_failed_items = 0
    /\ up_progress_percentage = Zero
    /\ up_last = [op |-> "none", processed |-> 0, failed |-> 0]

\* BatchJob(total_items=...), the other fields at their defaults
batch_job(total_items) ==
    /\ up_last.op = "none"
    /\ up_total_items' = total_items
    /\ up_last' = [op |-> "create", processed |-> 0, failed |-> 0]
    /\ UNCHANGED <<up_processed_items, up_failed_items, up_progress_percentage>>

\* BatchJob.update_progress with = in place of +=
update_progress_overwrites(processed, failed) ==
    /\ up_last.op # "none"
    /\ up_processed_items + up_failed_items + processed + failed <= MaxProgress
    /\ up_processed_items' = processed
    /\ up_failed_items' = failed
    /\ up_progress_percentage' =
          IF up_total_items > 0 THEN TimesHundred(processed, up_total_items)
          ELSE up_progress_percentage
    /\ up_last' = [op |-> "update_progress", processed |-> processed, failed |-> failed]
    /\ UNCHANGED up_total_items

\* BatchJob.update_progress
update_progress(processed, failed) ==
    /\ up_last.op # "none"
    /\ up_processed_items + up_failed_items + processed + failed <= MaxProgress
    /\ up_processed_items' = up_processed_items + processed
    /\ up_failed_items' = up_failed_items + failed
    /\ up_progress_percentage' =
          IF up_total_items > 0 THEN TimesHundred(up_processed_items', up_total_items)
          ELSE up_progress_percentage
    /\ up_last' = [op |-> "update_progress", processed |-> processed, failed |-> failed]
    /\ UNCHANGED up_total_items

\* start_job: the progress fields are reset unless the run resumes
start_job_resets(resume_from_checkpoint) ==
    /\ up_last.op # "none"
    /\ IF resume_from_checkpoint
       THEN UNCHANGED <<up_processed_items, up_failed_items, up_progress_percentage>>
       ELSE /\ up_processed_items' = 0
            /\ up_failed_items' = 0
            /\ up_progress_percentage' = Zero
    /\ up_last' = [op |-> IF resume_from_checkpoint THEN "resume" ELSE "reset",
                   processed |-> 0, failed |-> 0]
    /\ UNCHANGED up_total_items

\* C27: update_progress(processed, failed) adds its arguments to
\* processed_items and failed_items; a non-resuming start_job sets both to
\* zero; and in every state a job with total_items > 0 has
\* progress_percentage = processed_items / total_items * 100.
C27_ProgressIsAdded ==
    /\ [](up_total_items > 0 =>
             SameQuotient(up_progress_percentage,
                          [num |-> up_processed_items * 100, den |-> up_total_items]))
    /\ [][/\ (up_last'.op = "update_progress") =>
                /\ up_processed_items' = up_processed_items + up_last'.processed
                /\ up_failed_items' = up_failed_items + up_last'.failed
          /\ (up_last'.op = "reset") =>
                /\ up_processed_items' = 0
                /\ up_failed_items' = 0]_vars

\* a job of 3 items after update_progress(1, 1) and update_progress(1, 0):
\* 2 processed, 1 failed, 200 / 3 percent
C27_Witness ==
    /\ up_total_items = 3
    /\ up_last = [op |-> "update_progress", processed |-> 1, failed |-> 0]
    /\ up_processed_items = 2 /\ up_failed_items = 1
    /\ up_progress_percentage = [num |-> 200, den |-> 3]

NextProgress ==
    \/ \E total_items \in 0..MaxTotalItems : batch_job(total_items) /\ UNCHANGED uprest
    \/ \E processed \in 0..MaxUpdate, failed \in 0..MaxUpdate :
          update_progress(processed, failed) /\ UNCHANGED uprest
    \/ \E resume \in BOOLEAN : start_job_resets(resume) /\ UNCHANGED uprest

(***************************************************************************)
(* BatchProcessor.create_batch_job and _calculate_total_items. A job's     *)
(* instruments and timeframes are given by their lengths, its date range   *)
(* by (end_date - start_date).days.                                        *)
(***************************************************************************)
CreatedJobIds == {1, 2}
WeekDays == 7       \* days // 7
NoRow == [status |-> "absent", instruments |-> 0, timeframes |-> 0, days |-> 0,
          total_items |-> 0]

InitCreate ==
    /\ cj_rows = [j \in CreatedJobIds |-> NoRow]
    /\ cj_raised = 0

Max(a, b) == IF a > b THEN a ELSE b

\* BatchProcessor._calculate_total_items
calculate_total_items(n_instruments, n_timeframes, days) ==
    LET chunks_per_combination == Max(1, days \div WeekDays)
    IN n_instruments * n_timeframes * chunks_per_combination

\* BatchProcessor.create_batch_job: ValueError when the feature flag is
\* off, otherwise the row is added and committed
create_batch_job(j, enabled, n_instruments, n_timeframes, days) ==
    /\ cj_rows[j] = NoRow
    /\ \A i \in CreatedJobIds : i < j => cj_rows[i] # NoRow
    /\ IF ~enabled
       THEN /\ cj_raised < MaxRaised
            /\ cj_raised' = cj_raised + 1
            /\ UNCHANGED cj_rows
       ELSE /\ cj_rows' = [cj_rows EXCEPT ![j] =
                              [status |-> "pending", instruments |-> n_instruments,
                               timeframes |-> n_timeframes, days |-> days,
                               total_items |-> calculate_total_items(n_instruments, n_timeframes, days)]]
            /\ UNCHANGED cj_raised

\* C28: create_batch_job persists a Pending Job whose total_items is
\* |instruments| * |timeframes| * ceil(days / 7), days being the length of
\* [start_date, end_date] in days.
C28_TotalItemsIsCeilOfWeeks ==
    \A j \in CreatedJobIds :
        cj_rows[j] # NoRow =>
            /\ cj_rows[j].status = "pending"
            /\ LET ceil == (cj_rows[j].days + WeekDays - 1) \div WeekDays
               IN cj_rows[j].total_items =
                     cj_rows[j].instruments * cj_rows[j].timeframes * ceil

NextCreate ==
    \E j \in CreatedJobIds, enabled \in BOOLEAN, n_instruments \in 1..MaxInstruments,
       n_timeframes \in 1..MaxTimeframes, days \in 1..MaxDays :
          create_batch_job(j, enabled, n_instruments, n_timeframes, days) /\ UNCHANGED cjrest

(***************************************************************************)
(* BatchProcessor._process_job_parallel: the WorkItems of a run go to the  *)
(* global JobQueue in groups of concurrency_limit and are waited for one   *)
(* by one. A WorkItem is given by the position of its (instrument,         *)
(* timeframe) pair; the execution of a WorkItem is told apart by the run   *)
(* and the position of the item in work_items.                             *)
(***************************************************************************)
concurrency_limit == 2     \* job.concurrency_limit
job_priority == 5          \* job.priority

\* the work_items lists that are run: two pairs of one chunk each, one pair
\* of two chunks, one pair of two chunks followed by a second pair
ParallelWorkItems == {<<1, 2>>, <<1, 1>>, <<1, 1, 2>>}

InitParallel ==
    /\ pj_queue = <<>>
    /\ pj_exec = {}
    /\ pj_running_tasks = {}
    /\ pj_completed_tasks = EmptyMap
    /\ pj_failed_tasks = EmptyMap
    /\ pj_pc = "idle"
    /\ pj_runs = 0
    /\ pj_work_items = <<>>
    /\ pj_i = 0
    /\ pj_batch_tasks = <<>>
    /\ pj_pos = 0
    /\ pj_results = <<>>

\* task_id = f"{job.id}-{item['instrument']}-{item['timeframe']}-{i}"
task_id_of(item, i) == [pair |-> item, i |-> i]

\* the last position of the group that starts at i: work_items[i:i + concurrency_limit]
GroupEnd(i) == Min(i + concurrency_limit, Len(pj_work_items))

\* start_job in parallel mode: the work items are generated
process_job_parallel(work_items) ==
    /\ pj_pc \in {"idle", "completed"}
    /\ pj_runs < MaxParallelRuns
    /\ pj_runs' = pj_runs + 1
    /\ pj_pc' = "adding"
    /\ pj_work_items' = work_items
    /\ pj_i' = 0
    /\ pj_pos' = 1
    /\ pj_batch_tasks' = <<>>
    /\ pj_results' = <<>>
    /\ UNCHANGED <<pj_queue, pj_exec, pj_running_tasks, pj_completed_tasks, pj_failed_tasks>>

\* _process_job_parallel: job_queue.add_task for the next item of the group
process_job_parallel_adds ==
    /\ pj_pc = "adding"
    /\ IF pj_pos <= GroupEnd(pj_i)
       THEN LET task_id == task_id_of(pj_work_items[pj_pos], pj_i)
            IN  /\ pj_queue' = heappush(pj_queue,
                                  [task_id |-> task_id, priority |-> job_priority,
                                   payload |-> [run |-> pj_runs, pos |-> pj_pos]])
                /\ pj_batch_tasks' = Append(pj_batch_tasks, task_id)
                /\ pj_pos' = pj_pos + 1
                /\ UNCHANGED pj_pc
       ELSE /\ pj_pc' = "waiting"
            /\ pj_pos' = pj_i + 1
            /\ UNCHANGED <<pj_queue, pj_batch_tasks>>
    /\ UNCHANGED <<pj_exec, pj_running_tasks, pj_completed_tasks, pj_failed_tasks,
                   pj_runs, pj_work_items, pj_i, pj_results>>

\* _process_job_parallel: job_queue.wait_for_task(task_id, timeout=300) for
\* the next task id of the group has returned or raised, and the result or
\* the error is aggregated; after the last group the results are returned
\* and start_job marks the Job Completed
process_job_parallel_waits(timed_out) ==
    /\ pj_pc = "waiting"
    /\ IF pj_batch_tasks # <<>>
       THEN LET task_id == Head(pj_batch_tasks)
            IN  /\ IF task_id \in DOMAIN pj_completed_tasks
                   THEN /\ ~timed_out
                        /\ pj_results' = Append(pj_results, pj_completed_tasks[task_id])
                   ELSE IF task_id \in DOMAIN pj_failed_tasks
                   THEN /\ ~timed_out
                        /\ pj_results' = Append(pj_results, [run |-> 0, pos |-> 0])
                   ELSE /\ timed_out
                        /\ pj_results' = Append(pj_results, [run |-> 0, pos |-> 0])
                /\ pj_batch_tasks' = Tail(pj_batch_tasks)
                /\ pj_pos' = pj_pos + 1
                /\ UNCHANGED <<pj_pc, pj_i>>
       ELSE /\ ~timed_out
            /\ IF pj_i + concurrency_limit < Len(pj_work_items)
               THEN /\ pj_i' = pj_i + concurrency_limit
                    /\ pj_pos' = pj_i + concurrency_limit + 1
                    /\ pj_pc' = "adding"
               ELSE /\ pj_pc' = "completed"
                    /\ UNCHANGED <<pj_i, pj_pos>>
            /\ UNCHANGED <<pj_batch_tasks, pj_results>>
    /\ UNCHANGED <<pj_queue, pj_exec, pj_running_tasks, pj_completed_tasks, pj_failed_tasks,
                   pj_runs, pj_work_items>>

\* JobQueue._get_next_task called by an idle worker and returning a task
parallel_get_next_task ==
    /\ Cardinality(pj_exec) < max_concurrent
    /\ pj_queue # <<>>
    /\ ~(Cardinality(pj_running_tasks) >= max_concurrent)
    /\ LET p == heappop(pj_queue)
       IN  /\ pj_queue' = p.heap
           /\ pj_exec' = pj_exec \cup {p.item}
           /\ pj_running_tasks' = pj_running_tasks \cup {p.item.task_id}
    /\ UNCHANGED <<pj_completed_tasks, pj_failed_tasks, pj_pc, pj_runs, pj_work_items,
                   pj_i, pj_batch_tasks, pj_pos, pj_results>>

\* JobQueue._worker: execute_func, that is _process_work_item, returned or
\* raised; the result or the exception is stored under the task id
parallel_task_ends(t, ok) ==
    /\ t \in pj_exec
    /\ pj_exec' = pj_exec \ {t}
    /\ pj_running_tasks' = pj_running_tasks \ {t.task_id}
    /\ IF ok
       THEN /\ pj_completed_tasks' = MapPut(pj_completed_tasks, t.task_id, t.payload)
            /\ UNCHANGED pj_failed_tasks
       ELSE /\ pj_failed_tasks' = MapPut(pj_failed_tasks, t.task_id, t.payload)
            /\ UNCHANGED pj_completed_tasks
    /\ UNCHANGED <<pj_queue, pj_pc, pj_runs, pj_work_items, pj_i, pj_batch_tasks, pj_pos,
                   pj_results>>

\* the tasks of the JobQueue that are queued or with a worker
QueuedOrRunning == {pj_queue[n] : n \in 1..Len(pj_queue)} \cup pj_exec

\* C33: in parallel mode, when start_job marks the Job Completed no task
\* that this run enqueued is still queued or running, and the result
\* aggregated for each WorkItem is the result of that WorkItem's own
\* execution in this run; also when WorkItems of one group share their
\* instrument and timeframe and when the Job is run a second time.
C33_ParallelRunAwaitsOwnTasks ==
    pj_pc = "completed" =>
        /\ \A t \in QueuedOrRunning : t.payload.run # pj_runs
        /\ \A k \in 1..Len(pj_results) :
              pj_results[k].run # 0 => pj_results[k] = [run |-> pj_runs, pos |-> k]

NextParallel ==
    \/ \E w \in ParallelWorkItems : process_job_parallel(w) /\ UNCHANGED pjrest
    \/ process_job_parallel_adds /\ UNCHANGED pjrest
    \/ \E timed_out \in BOOLEAN : process_job_parallel_waits(timed_out) /\ UNCHANGED pjrest
    \/ parallel_get_next_task /\ UNCHANGED pjrest
    \/ \E t \in pj_exec, ok \in BOOLEAN : parallel_task_ends(t, ok) /\ UNCHANGED pjrest

(***************************************************************************)
(* SpikeProcessor._process_buffer: the task that drains self.buffer. The   *)
(* events are the numbers add() was called with, so each is distinct.      *)
(* stop() cancels the task; the CancelledError is raised at the await the  *)
(* task is suspended in and is not an Exception, so no handler of the loop *)
(* catches it.                                                             *)
(***************************************************************************)
DrainBatchSize == 10

InitDrain ==
    /\ dr_running = FALSE
    /\ dr_pc = "none"
    /\ dr_batch = <<>>
    /\ dr_removed = {}
    /\ dr_stored = {}

\* SpikeProcessor() builds the buffer, start() sets _running and creates the
\* drain task
start_buffer_processor ==
    /\ ~dr_running
    /\ stream_buffer(MaxBufSize)
    /\ dr_running' = TRUE
    /\ dr_pc' = "get_batch"
    /\ UNCHANGED <<dr_batch, dr_removed, dr_stored>>

\* _process_stream hands a detected event to the buffer
process_stream_buffers_event ==
    /\ dr_running
    /\ add(sb_items_added)
    /\ UNCHANGED drvars

\* batch = await self.buffer.get_batch(10)
process_buffer_get_batch ==
    /\ dr_pc = "get_batch"
    /\ get_batch(DrainBatchSize)
    /\ LET batch == TakeFirst(sb_buffer, DrainBatchSize)
       IN  /\ dr_batch' = batch
           /\ dr_removed' = dr_removed \cup {batch[i] : i \in 1..Len(batch)}
           /\ dr_pc' = IF batch = <<>> THEN "sleep" ELSE "store"
    /\ UNCHANGED <<dr_running, dr_stored>>

\* one turn of "for item in batch": _store_event commits the event, or raises
\* and the handler logs the error and goes on with the next item
process_buffer_store_event(raises) ==
    /\ dr_pc = "store"
    /\ dr_stored' = IF raises THEN dr_stored ELSE dr_stored \cup {Head(dr_batch)}
    /\ dr_batch' = Tail(dr_batch)
    /\ dr_pc' = IF Tail(dr_batch) = <<>> THEN "sleep" ELSE "store"
    /\ UNCHANGED <<dr_running, dr_removed>>

\* await asyncio.sleep(1) is over, the loop tests self._running again
process_buffer_sleep_over ==
    /\ dr_pc = "sleep"
    /\ dr_pc' = "get_batch"
    /\ UNCHANGED <<dr_running, dr_batch, dr_removed, dr_stored>>

\* stop(): _running = False and task.cancel(). A task suspended in
\* _store_event is cancelled at its await: the commit was sent or was not
\* (committed); the rest of its batch goes with the task.
stop_buffer_processor(committed) ==
    /\ dr_running
    /\ dr_running' = FALSE
    /\ dr_stored' = IF dr_pc = "store" /\ committed
                    THEN dr_stored \cup {Head(dr_batch)}
                    ELSE dr_stored
    /\ dr_batch' = <<>>
    /\ dr_pc' = "cancelled"
    /\ UNCHANGED sbvars
    /\ UNCHANGED dr_removed

\* C36: every event the drain loop removes from the buffer is persisted: at
\* any moment an event taken out of the buffer is either stored or still in
\* the batch the loop is storing, also when a store attempt raises and when
\* stop() is called while a batch is being stored.
C36_DrainedEventsArePersisted ==
    \A e \in dr_removed :
        \/ e \in dr_stored
        \/ dr_pc = "store" /\ \E i \in 1..Len(dr_batch) : dr_batch[i] = e

NextDrain ==
    \/ start_buffer_processor /\ UNCHANGED drrest
    \/ process_stream_buffers_event /\ UNCHANGED drrest
    \/ process_buffer_get_batch /\ UNCHANGED drrest
    \/ \E raises \in BOOLEAN : process_buffer_store_event(raises) /\ UNCHANGED <<sbvars, drrest>>
    \/ process_buffer_sleep_over /\ UNCHANGED <<sbvars, drrest>>
    \/ \E committed \in BOOLEAN : stop_buffer_processor(committed) /\ UNCHANGED drrest

(***************************************************************************)
(* The item loop of _process_job_sequential and _process_job_parallel and  *)
(* the progress counters. Every database statement of the loop may raise.  *)
(* _update_job_progress changes the BatchJob object first and writes the   *)
(* object's counters to the row afterwards.                                *)
(***************************************************************************)
InitItems ==
    /\ it_pc = "idle"
    /\ it_parallel = FALSE
    /\ it_items = 0
    /\ it_pos = 0
    /\ it_processed = 0
    /\ it_failed = 0
    /\ it_total_items = 0
    /\ it_progress_percentage = Zero
    /\ it_row = [processed_items |-> 0, failed_items |-> 0, progress_percentage |-> Zero]

\* create_batch_job stores total_items for the date range; start_job of the
\* non-resumed Job resets the counters, the WorkItems are generated and the
\* loop entered
process_job(parallel_processing, end_date) ==
    /\ it_pc = "idle"
    /\ it_parallel' = parallel_processing
    /\ it_total_items' = calculate_total_items(Len(instruments), Len(timeframes),
                                               end_date - start_date)
    /\ it_items' = Len(generate_work_items(NoCheckpoint, FALSE, end_date))
    /\ it_pos' = 0
    /\ it_processed' = 0
    /\ it_failed' = 0
    /\ it_progress_percentage' = Zero
    /\ it_row' = [processed_items |-> 0, failed_items |-> 0, progress_percentage |-> Zero]
    /\ it_pc' = IF it_items' = 0 THEN "done" ELSE "process"

\* the loop goes on to the next WorkItem, or is over
NextItem ==
    /\ it_pos' = it_pos + 1
    /\ it_pc' = IF it_pos + 1 = it_items THEN "done" ELSE "process"

\* job.update_progress(processed, failed), then the UPDATE of the row, which
\* raises or commits
update_job_progress(processed, failed, raises) ==
    /\ it_processed' = it_processed + processed
    /\ it_failed' = it_failed + failed
    /\ it_progress_percentage' =
          IF it_total_items > 0 THEN TimesHundred(it_processed', it_total_items)
          ELSE it_progress_percentage
    /\ it_row' = IF raises
                 THEN it_row
                 ELSE [processed_items |-> it_processed', failed_items |-> it_failed',
                       progress_percentage |-> it_progress_percentage']

\* sequential: await self._process_work_item(job, item); parallel: await
\* self.job_queue.wait_for_task(task_id, timeout=300); the results are added up
item_result(ok) ==
    /\ it_pc = "process"
    /\ it_pc' = IF ok THEN "update" ELSE "except"
    /\ UNCHANGED <<it_parallel, it_items, it_total_items, it_progress_percentage, it_pos,
                   it_processed, it_failed, it_row>>

\* await self._update_job_progress(job, 1, 0) in the try block
item_progress(raises) ==
    /\ it_pc = "update"
    /\ update_job_progress(1, 0, raises)
    /\ IF raises
       THEN it_pc' = "except" /\ UNCHANGED it_pos
       ELSE IF it_parallel
            THEN NextItem
            ELSE it_pc' = "checkpoint" /\ UNCHANGED it_pos
    /\ UNCHANGED <<it_parallel, it_items, it_total_items>>

\* sequential: await self._save_checkpoint(job, item) in the same try block
item_checkpoint(raises) ==
    /\ it_pc = "checkpoint"
    /\ IF raises
       THEN it_pc' = "except" /\ UNCHANGED it_pos
       ELSE NextItem
    /\ UNCHANGED <<it_parallel, it_items, it_total_items, it_progress_percentage,
                   it_processed, it_failed, it_row>>

\* except Exception: the error is appended and
\* await self._update_job_progress(job, 0, 1); if that raises, the exception
\* leaves the loop
item_except(raises) ==
    /\ it_pc = "except"
    /\ update_job_progress(0, 1, raises)
    /\ IF raises
       THEN it_pc' = "raised" /\ UNCHANGED it_pos
       ELSE NextItem
    /\ UNCHANGED <<it_parallel, it_items, it_total_items>>

\* C37: during one run processed_items + failed_items never decreases and
\* grows by exactly one per WorkItem, in sequential and in parallel mode:
\* between two items the sum is the number of items the loop is through
\* with, and when the loop is over it is the number of WorkItems generated.
C37_OneCountPerWorkItem ==
    /\ [](it_pc \in {"process", "done"} =>
            it_row.processed_items + it_row.failed_items = it_pos)
    /\ [](it_pc = "done" =>
            it_row.processed_items + it_row.failed_items = it_items)
    /\ [][it_pc # "idle" =>
            it_row'.processed_items + it_row'.failed_items
                >= it_row.processed_items + it_row.failed_items]_vars

\* C40: for a run that is not resumed, total_items as create_batch_job
\* stored it is the number of WorkItems start_job generates, so the
\* persisted progress_percentage never exceeds 100 during the run and is
\* exactly 100 when the loop is over (the Job Completed) with
\* failed_items = 0.
C40_TotalItemsIsItemCount ==
    it_pc # "idle" =>
        /\ it_total_items = it_items
        /\ it_row.progress_percentage.num <= 100 * it_row.progress_percentage.den
        /\ (it_pc = "done" /\ it_row.failed_items = 0) =>
              it_row.progress_percentage.num = 100 * it_row.progress_percentage.den

NextItems ==
    \/ \E p \in BOOLEAN, d \in 1..MaxDays : process_job(p, d) /\ UNCHANGED itrest
    \/ \E ok \in BOOLEAN : item_result(ok) /\ UNCHANGED itrest
    \/ \E raises \in BOOLEAN : item_progress(raises) /\ UNCHANGED itrest
    \/ \E raises \in BOOLEAN : item_checkpoint(raises) /\ UNCHANGED itrest
    \/ \E raises \in BOOLEAN : item_except(raises) /\ UNCHANGED itrest

Init == InitQueue /\ InitBreaker /\ InitRetry /\ InitBuffer /\ InitJob /\ InitWorkItems /\ InitEvents /\ InitSpike /\ InitScheduler
        /\ InitRetryJobs /\ InitProgress /\ InitCreate
        /\ InitParallel /\ InitDrain /\ InitItems

SpecQueue == Init /\ [][NextQueue]_vars

SpecQueueStop == Init /\ [][NextQueueStop]_vars

SpecQueueCancel == Init /\ [][NextQueueCancel]_vars

SpecQueueCancelFair == SpecQueueCancel /\ FairWorkers

SpecQueueWait == Init /\ [][NextQueueWait]_vars

SpecBreaker == Init /\ [][NextBreaker]_vars

SpecRetry == Init /\ [][NextRetry]_vars

SpecBuffer == Init /\ [][NextBuffer]_vars

SpecJob == Init /\ [][NextJob]_vars

SpecJobStop == Init /\ [][NextJobStop]_vars

SpecWorkItems == Init /\ [][NextWorkItems]_vars

SpecEvents == Init /\ [][NextEvents]_vars

SpecSpike == Init /\ [][NextSpike]_vars

SpecScheduler == Init /\ [][NextScheduler]_vars

SpecRecurrence == Init /\ [][NextRecurrence]_vars

SpecRetryJobs == Init /\ [][NextRetryJobs]_vars

SpecProgress == Init /\ [][NextProgress]_vars

SpecCreate == Init /\ [][NextCreate]_vars

SpecParallel == Init /\ [][NextParallel]_vars

SpecDrain == Init /\ [][NextDrain]_vars

SpecItems == Init /\ [][NextItems]_vars

====
